---- MODULE Spec2Model ----
(***************************************************************************)
(* Model of the Boltz swap engine of marina (src/src/pkg/boltz.ts).        *)
(*                                                                         *)
(* Three controllers are modelled, each as the code runs it on the         *)
(* JavaScript event loop: a handler runs to its next await (or to its end) *)
(* in one atomic step, and the continuation after an await is a separate   *)
(* step that the HTTP response enables.                                    *)
(*                                                                         *)
(*   submarineSwap          POST swap/submarine, then a websocket whose    *)
(*                          invoice.set update resolves the promise        *)
(*   finalizeSubmarineSwap  websocket whose transaction.claim.pending      *)
(*                          update starts a cooperative signature and      *)
(*                          whose transaction.claimed update resolves      *)
(*   reverseSwap            POST swap/reverse, then a websocket whose      *)
(*                          transaction.mempool update builds, signs and   *)
(*                          broadcasts the claim and whose invoice.settled *)
(*                          update calls onFinish                          *)
(*                                                                         *)
(* The swap service is the environment: it answers each HTTP request with  *)
(* any response (or an HTTP failure) and pushes any websocket message in   *)
(* any order, with repetitions.                                            *)
(***************************************************************************)
EXTENDS Integers, Sequences, FiniteSets, TLC

\* Bound on the websocket messages delivered to one subscription.
MaxEvents == 3

VARIABLES
    \* ---- submarineSwap ----
    subPc,          \* "idle" | "posting" | "postFailed" | "thenThrew" | "subscribed"
    subResp,        \* the SubmarineSwapResponse received (NoResp before)
    subPromise,     \* "none" | "pending" | "resolved" | "rejected"
    subSwallowed,   \* error of the .then chain nobody observes ("" when none)
    subWs,          \* websocket of submarineSwap: "none" | "open" | "closed"
    subMsgs,        \* number of messages delivered to that websocket
    \* ---- finalizeSubmarineSwap ----
    finPc,          \* "idle" | "called"
    finPromise,     \* "none" | "pending" | "resolved" | "rejected"
    finRejects,     \* sequence of the reasons reject() was called with
    finWs,          \* "none" | "open" | "closed"
    finLog,         \* sequence of messages delivered to onmessage
    finH,           \* one record per async onmessage invocation that awaits
    finSessions,    \* number of Musig instances created
    finMusig,       \* per Musig instance, the calls made on it, in order
    finPosts,       \* sequence of partial signatures POSTed
    finErrors,      \* sequence of errors thrown out of onmessage
    finMismatchAt,  \* messages delivered when the first preimage mismatch was
                    \* detected (0: none detected)
    \* ---- reverseSwap ----
    revPc,          \* "idle" | "creating" | "createFailed" | "subscribed"
    revInvoices,    \* number of onInvoice calls
    revWs,          \* "none" | "open" | "closed"
    revLog,         \* sequence of messages delivered to onmessage
    claimTx,        \* the closure variable claimTx: 0 (undefined) or a tx id
    txs,            \* the Transaction objects built so far, by tx id
    revH,           \* one record per transaction.mempool handler that awaits
    revSessions,    \* number of Musig instances created
    revMusig,       \* per Musig instance, the calls made on it, in order
    revClaimPosts,  \* sequence of POST swap/reverse/{id}/claim bodies
    revCreatePosts, \* sequence of POST swap/reverse bodies
    revBroadcasts,  \* sequence of POST chain/L-BTC/transaction bodies
    revOnFinish,    \* sequence of onFinish calls
    revErrors,      \* sequence of errors thrown out of onmessage
    \* ---- invoice functions ----
    decoded,        \* what bolt11.decode returns for the invoice at hand
    invOut,         \* the last call on it: function name and its outcome
    \* ---- refund transaction ----
    refParams,      \* the MakeRefundTransactionParams at hand
    refBuilds,      \* the getRefundTransaction calls made: fee and outcome
    refOut,         \* the last call: function name and its outcome
    \* ---- legacy swap script (domain/boltz.ts, extractInfoFromRefundableSwapParams) ----
    legScript,      \* the redeem script at hand: the one validated, parsed, or answered by the service
    legKey,         \* the refund public key: the argument, or the one the wallet derives
    legInvoice,     \* payment hash of the invoice being paid
    legOut,         \* the last direct call: function name and its outcome
    legExtracts,    \* results of the extractInfoFromRefundableSwapParams calls, in order
    mkPc,           \* makeSubmarineSwap: "idle", the await it stands at, or "done"
    mkAnswered,     \* makeSubmarineSwap: createSubmarineSwap has answered
    mkOut,          \* makeSubmarineSwap: what its promise settled with
    \* ---- getLiquidAddress ----
    laPc,           \* "idle" | "getting" | "done"
    laHint,         \* the magic hint's public key
    laAnswer,       \* the service's bip21 answer (NoAnswer before)
    laOut,          \* what the promise settled with
    \* ---- send-lightning form (LightningInvoice) ----
    sendPair,       \* useState pair: limits and fees of L-BTC/BTC (NoPair before)
    sendBalance,    \* the wallet's L-BTC balance
    sendInput,      \* the text in the invoice field
    sendForm,       \* the other useState values of the component
    sendRoute,      \* "none" | "form" | "chooseFee"
    sendProceeds,   \* the handleProceed calls, in order of their clicks
    refundableSwaps, \* refundableSwapsRepository: the swaps saved
    sendFlow,       \* sendFlowRepository: the stored sendFlowData
    sendFlowCalls,  \* the sendFlowRepository updates other screens called, in order
    sendKeyIndex,   \* number of addresses derived with getNextAddress
    sendSwapPosts,  \* sequence of POST swap/submarine bodies of makeSwap
    \* ---- receive-lightning screen (LightningShowInvoice) ----
    rcvPc,          \* makeSwap: where it stands, or the error it threw
    rcvScreen,      \* useState values: errors.submit, invoice, isSubmitting, lookingForPayment
    rcvWs,          \* websocket of reverseSwap: "none" | "open" | "closed"
    rcvClaimTx,     \* reverseSwap has assigned claimTx
    rcvEvents,      \* number of updates reverseSwap has handled
    rcvTimer,       \* invoiceExpirationTimeout: "none" | "set" | "cleared" | "fired"
    rcvLog,         \* the handleCompletion and invoiceHasExpired runs, in order
    rcvResets,      \* number of receiveFlowRepository.reset() calls
    rcvRoute        \* "none" | "showInvoice" | "back" | "success"

subVars == <<subPc, subResp, subPromise, subSwallowed, subWs, subMsgs>>
finVars == <<finPc, finPromise, finRejects, finWs, finLog, finH, finSessions, finMusig,
             finPosts, finErrors, finMismatchAt>>
revVars == <<revPc, revInvoices, revWs, revLog, claimTx, txs, revH, revSessions, revMusig,
             revClaimPosts, revCreatePosts, revBroadcasts, revOnFinish, revErrors>>
invVars == <<decoded, invOut>>
refVars == <<refParams, refBuilds, refOut>>
legVars == <<legScript, legKey, legInvoice, legOut, legExtracts, mkPc, mkAnswered, mkOut>>
laVars == <<laPc, laHint, laAnswer, laOut>>
sendVars == <<sendPair, sendBalance, sendInput, sendForm, sendRoute, sendProceeds,
              refundableSwaps, sendFlow, sendFlowCalls, sendKeyIndex, sendSwapPosts>>
rcvVars == <<rcvPc, rcvScreen, rcvWs, rcvClaimTx, rcvEvents, rcvTimer, rcvLog, rcvResets,
             rcvRoute>>
vars == <<subVars, finVars, revVars, invVars, refVars, legVars, laVars, sendVars, rcvVars>>

----------------------------------------------------------------------------
\* Websocket messages.  raw = "garbage" is a frame JSON.parse rejects.

Garbage == [raw |-> "garbage", event |-> "", status |-> "", lockup |-> <<>>]
Other   == [raw |-> "json", event |-> "pong", status |-> "", lockup |-> <<>>]
Update(status, lockup) ==
    [raw |-> "json", event |-> "update", status |-> status, lockup |-> lockup]

\* A promise settles once: resolve and reject on a settled promise do nothing.
Settle(promise, outcome) == IF promise = "pending" THEN outcome ELSE promise

----------------------------------------------------------------------------
\* submarineSwap

WalletRefundKey == "walletKey"
Addresses == {"addrTree", "addrOther"}
Keys == {WalletRefundKey, "otherKey"}
NoResp == [address |-> "", treeAddress |-> "", treeRefundKey |-> ""]

\* What the service may answer to POST swap/submarine: the address to fund,
\* the address its swap tree and keys commit to, and the refund key in the
\* tree's refund leaf.
SubmarineResponses ==
    [address : Addresses, treeAddress : Addresses, treeRefundKey : Keys]

isValidSubmarineSwapResponse(response) == TRUE

SubmarineSwapCall ==
    /\ subPc = "idle"
    /\ subPc' = "posting"
    /\ subPromise' = "pending"
    /\ UNCHANGED <<subResp, subSwallowed, subWs, subMsgs>>

\* axios.post rejected: the chain has no catch, reject is never called.
SubmarinePostFails ==
    /\ subPc = "posting"
    /\ subPc' = "postFailed"
    /\ subSwallowed' = "http"
    /\ UNCHANGED <<subResp, subPromise, subWs, subMsgs>>

\* The .then callback of the POST.
SubmarinePostThen(res) ==
    /\ subPc = "posting"
    /\ IF ~isValidSubmarineSwapResponse(res)
         THEN /\ subPc' = "thenThrew"
              /\ subSwallowed' = "Invalid submarine swap"
              /\ UNCHANGED <<subResp, subWs>>
         ELSE /\ subPc' = "subscribed"
              /\ subResp' = res
              /\ subWs' = "open"
              /\ UNCHANGED subSwallowed
    /\ UNCHANGED <<subPromise, subMsgs>>

SubMessages == {Garbage, Other, Update("invoice.set", <<>>),
                Update("transaction.mempool", <<>>)}

SubmarineOnMessage(rawMsg) ==
    /\ subWs = "open"
    /\ subMsgs < MaxEvents
    /\ subMsgs' = subMsgs + 1
    /\ subPromise' = IF /\ rawMsg.raw = "json"
                        /\ rawMsg.event = "update"
                        /\ rawMsg.status = "invoice.set"
                       THEN Settle(subPromise, "resolved")
                       ELSE subPromise
    /\ UNCHANGED <<subPc, subResp, subSwallowed, subWs>>

----------------------------------------------------------------------------
\* finalizeSubmarineSwap

Preimages == {"preimagePaid", "preimageForged"}

\* crypto.sha256 on the preimages the service may return.
Sha256(preimage) ==
    CASE preimage = "preimagePaid" -> "hashPaid"
      [] preimage = "preimageForged" -> "hashForged"

\* The payment_hash tag of swapInfo.invoice.
InvoicePaymentHash == "hashPaid"

\* Answers of GET swap/submarine/{id}/claim.
\* ECPairFactory(ecc).makeRandom(): a key pair drawn afresh by the call that
\* makes it, hence one that no request has carried before.
makeRandom(caller) == "randomKeyOf:" \o caller

\* const keys = ECPairFactory(ecc).makeRandom() of finalizeSubmarineSwap
FinalizeKeys == makeRandom("finalizeSubmarineSwap")

ClaimTxDetails == [preimage : Preimages]

\* new Promise((resolve, reject) => { ... }): the executor.
FinalizeCall(hasInvoice, hasResponse) ==
    /\ finPc = "idle"
    \* a swapResponse exists only once submarineSwap has returned one
    /\ hasResponse => subPromise = "resolved"
    /\ finPc' = "called"
    /\ IF ~hasInvoice \/ ~hasResponse
         THEN /\ finPromise' = "rejected"
              /\ finRejects' = Append(finRejects, "undefined")
              /\ UNCHANGED finWs
         ELSE /\ finPromise' = "pending"
              /\ finWs' = "open"
              /\ UNCHANGED finRejects
    /\ UNCHANGED <<finLog, finH, finSessions, finMusig, finPosts, finErrors, finMismatchAt>>

FinMessages == {Garbage, Other, Update("invoice.set", <<>>),
                Update("transaction.claim.pending", <<>>),
                Update("transaction.claimed", <<>>)}

\* Mutant of FinalizeClaimed: the websocket is left open.
FinalizeClaimed_NoClose ==
    /\ finPromise' = Settle(finPromise, "resolved")
    /\ UNCHANGED <<finWs, finRejects, finH, finSessions, finMusig, finPosts, finErrors>>

\* case 'transaction.claimed': webSocket.close(); resolve('')
FinalizeClaimed ==
    /\ finWs' = "closed"
    /\ finPromise' = Settle(finPromise, "resolved")
    /\ UNCHANGED <<finRejects, finH, finSessions, finMusig, finPosts, finErrors>>

\* case 'transaction.claim.pending', up to the await of the GET.
FinalizeClaimPending ==
    /\ finH' = Append(finH, [pc |-> "get", sess |-> 0, preimage |-> ""])
    /\ UNCHANGED <<finPromise, finRejects, finWs, finSessions, finMusig, finPosts, finErrors>>

\* webSocket.onmessage, up to its first await or its end.
FinalizeOnMessage(rawMsg) ==
    /\ finWs = "open"
    /\ Len(finLog) < MaxEvents
    /\ finLog' = Append(finLog, rawMsg)
    /\ IF rawMsg.raw # "json" \/ rawMsg.event # "update"
         THEN UNCHANGED <<finPromise, finRejects, finWs, finH, finSessions, finMusig,
                          finPosts, finErrors>>
         ELSE CASE rawMsg.status = "transaction.claim.pending" -> FinalizeClaimPending
                [] rawMsg.status = "transaction.claimed" -> FinalizeClaimed
                [] OTHER -> UNCHANGED <<finPromise, finRejects, finWs, finH,
                                        finSessions, finMusig, finPosts, finErrors>>
    /\ UNCHANGED <<finPc, finMismatchAt>>

\* The preimage check of the claim.pending handler.
PreimageMatches(claimTxDetails) ==
    Sha256(claimTxDetails.preimage) = InvoicePaymentHash

\* The calls on the Musig instance of a claim.pending handler, from its
\* creation to the body of the POST.
FinalizeSigningSteps_NoNonceAggregation ==
    <<"new", "tweakMusig", "initializeSession", "getPublicNonce", "signPartial">>

FinalizeSigningSteps ==
    <<"new", "tweakMusig", "aggregateNonces", "initializeSession",
      "getPublicNonce", "signPartial">>

\* The GET answered: preimage check, then Musig session, then the POST.
FinalizeGetResponse(i, claimTxDetails) ==
    /\ finH[i].pc = "get"
    /\ IF ~PreimageMatches(claimTxDetails)
         THEN /\ finRejects' = Append(finRejects, "Boltz provided invalid preimage")
              /\ finPromise' = Settle(finPromise, "rejected")
              /\ finH' = [finH EXCEPT ![i].pc = "rejected",
                                       ![i].preimage = claimTxDetails.preimage]
              /\ finMismatchAt' = IF finMismatchAt = 0 THEN Len(finLog)
                                                       ELSE finMismatchAt
              /\ UNCHANGED <<finSessions, finMusig, finPosts>>
         ELSE /\ finSessions' = finSessions + 1
              /\ finMusig' = Append(finMusig, FinalizeSigningSteps)
              /\ finPosts' = Append(finPosts, [handler |-> i, sess |-> finSessions + 1,
                                                 key |-> FinalizeKeys])
              /\ finH' = [finH EXCEPT ![i] = [pc |-> "post", sess |-> finSessions + 1,
                                               preimage |-> claimTxDetails.preimage]]
              /\ UNCHANGED <<finPromise, finRejects, finMismatchAt>>
    /\ UNCHANGED <<finPc, finWs, finLog, finErrors>>

\* axios.get rejected: the async handler throws, nobody catches.
FinalizeGetFails(i) ==
    /\ finH[i].pc = "get"
    /\ finH' = [finH EXCEPT ![i].pc = "threw"]
    /\ finErrors' = Append(finErrors, "http")
    /\ UNCHANGED <<finPc, finPromise, finRejects, finWs, finLog, finSessions, finMusig, finPosts,
                   finMismatchAt>>

\* The POST of the partial signature answered (or failed).
FinalizePostDone(i, ok) ==
    /\ finH[i].pc = "post"
    /\ finH' = [finH EXCEPT ![i].pc = IF ok THEN "done" ELSE "threw"]
    /\ finErrors' = IF ok THEN finErrors ELSE Append(finErrors, "http")
    /\ UNCHANGED <<finPc, finPromise, finRejects, finWs, finLog, finSessions, finMusig, finPosts,
                   finMismatchAt>>

----------------------------------------------------------------------------
\* reverseSwap

\* Output scripts a lockup transaction may pay to.  TweakedKey is the swap
\* key tweaked by the swap tree.
TweakedKey == "tweakedSwapKey"
Lockups == {<<TweakedKey>>, <<"otherScript">>, <<"otherScript", TweakedKey>>}

\* detectSwap: the index of the first output paying to the tweaked key, 0
\* (undefined) when there is none.
detectSwap(tweakedKey, lockupTx) ==
    IF \E k \in DOMAIN lockupTx : lockupTx[k] = tweakedKey
      THEN CHOOSE k \in DOMAIN lockupTx :
             /\ lockupTx[k] = tweakedKey
             /\ \A j \in DOMAIN lockupTx : lockupTx[j] = tweakedKey => k <= j
      ELSE 0

\* Mutant of SwapOutputMissing: the handler goes on without a swap output.
SwapOutputMissing_Never(swapOutput) == FALSE

\* if (swapOutput === undefined) { console.error(...); return; }
SwapOutputMissing(swapOutput) == swapOutput = 0

NoWitness == [sess |-> 0, over |-> 0]

\* const keys = ECPairFactory(this.zkp.ecc).makeRandom() of reverseSwap
ReverseKeys == makeRandom("reverseSwap")

\* The preimage reverseSwap draws: randomBytes(32).
RevPreimage == "preimageOwn"
RevPreimageHash == "sha256:" \o RevPreimage

\* Mutant of ReverseSwapCall: the create request carries the preimage itself.
ReverseSwapCall_SendsPreimage ==
    /\ revPc = "idle"
    /\ revPc' = "creating"
    /\ revCreatePosts' = Append(revCreatePosts,
          [preimageHash |-> RevPreimageHash, holds |-> {RevPreimage},
           claimPublicKey |-> ReverseKeys])
    /\ UNCHANGED <<revInvoices, revWs, revLog, claimTx, txs, revH, revSessions, revMusig,
                   revClaimPosts, revBroadcasts, revOnFinish, revErrors>>

\* reverseSwap up to the await of the create request, whose body holds the
\* hash of the preimage.
ReverseSwapCall ==
    /\ revPc = "idle"
    /\ revPc' = "creating"
    /\ revCreatePosts' = Append(revCreatePosts,
          [preimageHash |-> RevPreimageHash, holds |-> {RevPreimageHash},
           claimPublicKey |-> ReverseKeys])
    /\ UNCHANGED <<revInvoices, revWs, revLog, claimTx, txs, revH, revSessions, revMusig,
                   revClaimPosts, revBroadcasts, revOnFinish, revErrors>>

ReverseCreateFails ==
    /\ revPc = "creating"
    /\ revPc' = "createFailed"
    /\ UNCHANGED <<revInvoices, revWs, revLog, claimTx, txs, revH, revSessions, revMusig,
                   revClaimPosts, revCreatePosts, revBroadcasts, revOnFinish, revErrors>>

ReverseCreated ==
    /\ revPc = "creating"
    /\ revPc' = "subscribed"
    /\ revInvoices' = revInvoices + 1
    /\ revWs' = "open"
    /\ UNCHANGED <<revLog, claimTx, txs, revH, revSessions, revMusig,
                   revClaimPosts, revCreatePosts, revBroadcasts, revOnFinish, revErrors>>

RevMessages == {Garbage, Other, Update("swap.created", <<>>),
                Update("invoice.settled", <<>>)}
               \cup {Update("transaction.mempool", l) : l \in Lockups}

\* Has the broadcast of exactly this hex been answered?
BroadcastCompleted(tx, witness) ==
    \E b \in DOMAIN revBroadcasts :
        /\ revBroadcasts[b].tx = tx
        /\ revBroadcasts[b].witness = witness
        /\ revBroadcasts[b].done

\* The calls on the Musig instance of a transaction.mempool handler: before
\* the swap output is looked for, in the body of the claim POST, and after
\* its answer; addPartial throws on a partial signature that does not verify.
ReverseSessionSteps == <<"new", "tweakMusig">>
ReverseClaimPostSteps == <<"getPublicNonce">>
ReverseRejectedPartialSteps == <<"aggregateNonces", "initializeSession">>

ReverseSigningSteps_AggregateEarly ==
    <<"aggregateNonces", "initializeSession", "addPartial", "aggregatePartials",
      "signPartial">>

ReverseSigningSteps ==
    <<"aggregateNonces", "initializeSession", "addPartial", "signPartial",
      "aggregatePartials">>

\* case 'transaction.mempool', up to the await of the claim POST.
ReverseMempool(lockupTx) ==
    LET sess == revSessions + 1
        swapOutput == detectSwap(TweakedKey, lockupTx)
        tx == Len(txs) + 1
    IN  /\ revSessions' = sess
        /\ IF SwapOutputMissing(swapOutput)
             THEN /\ revMusig' = Append(revMusig, ReverseSessionSteps)
                  /\ UNCHANGED <<claimTx, txs, revH, revClaimPosts>>
             ELSE /\ revMusig' = Append(revMusig,
                        ReverseSessionSteps \o ReverseClaimPostSteps)
                  /\ txs' = Append(txs, [witness |-> NoWitness, vout |-> swapOutput])
                  /\ claimTx' = tx
                  /\ revClaimPosts' = Append(revClaimPosts,
                        [tx |-> tx, pubNonce |-> sess, preimage |-> TRUE,
                         key |-> ReverseKeys])
                  /\ revH' = Append(revH, [pc |-> "claim", sess |-> sess, tx |-> tx, bc |-> 0])
        /\ UNCHANGED <<revWs, revCreatePosts, revBroadcasts, revOnFinish, revErrors>>

\* Mutant of ReverseSettled: the websocket is closed, onFinish is not called.
ReverseSettled_NoFinish ==
    /\ revWs' = "closed"
    /\ UNCHANGED <<claimTx, txs, revH, revSessions, revMusig, revClaimPosts, revCreatePosts, revBroadcasts,
                   revOnFinish, revErrors>>

\* case 'invoice.settled': onFinish(claimTx.toHex()); webSocket.close()
ReverseSettled ==
    /\ IF claimTx = 0
         THEN /\ revErrors' = Append(revErrors, "TypeError")
              /\ UNCHANGED <<revOnFinish, revWs>>
         ELSE /\ revOnFinish' = Append(revOnFinish,
                    [tx |-> claimTx, witness |-> txs[claimTx].witness,
                     broadcast |-> BroadcastCompleted(claimTx, txs[claimTx].witness)])
              /\ revWs' = "closed"
              /\ UNCHANGED revErrors
    /\ UNCHANGED <<claimTx, txs, revH, revSessions, revMusig, revClaimPosts, revCreatePosts, revBroadcasts>>

\* webSocket.onmessage, up to its first await or its end.
ReverseOnMessage(rawMsg) ==
    /\ revWs = "open"
    /\ Len(revLog) < MaxEvents
    /\ revLog' = Append(revLog, rawMsg)
    /\ IF rawMsg.raw # "json"
         THEN /\ revErrors' = Append(revErrors, "SyntaxError")
              /\ UNCHANGED <<revWs, claimTx, txs, revH, revSessions, revMusig, revClaimPosts, revCreatePosts,
                             revBroadcasts, revOnFinish>>
         ELSE IF rawMsg.event # "update"
         THEN UNCHANGED <<revWs, claimTx, txs, revH, revSessions, revMusig, revClaimPosts, revCreatePosts,
                          revBroadcasts, revOnFinish, revErrors>>
         ELSE CASE rawMsg.status = "transaction.mempool" -> ReverseMempool(rawMsg.lockup)
                [] rawMsg.status = "invoice.settled" -> ReverseSettled
                [] OTHER -> UNCHANGED <<revWs, claimTx, txs, revH, revSessions, revMusig,
                                        revClaimPosts, revCreatePosts, revBroadcasts, revOnFinish,
                                        revErrors>>
    /\ UNCHANGED <<revPc, revInvoices>>

\* The claim POST answered with Boltz's nonce and partial signature: the
\* session is completed on the claimTx variable as it is now, the witness is
\* set and the broadcast is sent.  addPartial throws on a partial signature
\* that does not verify.
ReverseClaimResponse(i, partialVerifies) ==
    /\ revH[i].pc = "claim"
    /\ IF ~partialVerifies
         THEN /\ revH' = [revH EXCEPT ![i].pc = "threw"]
              /\ revErrors' = Append(revErrors, "invalid partial signature")
              /\ revMusig' = [revMusig EXCEPT ![revH[i].sess] =
                                  @ \o ReverseRejectedPartialSteps]
              /\ UNCHANGED <<txs, revBroadcasts>>
         ELSE LET witness == [sess |-> revH[i].sess, over |-> claimTx]
              IN  /\ revMusig' = [revMusig EXCEPT ![revH[i].sess] =
                                      @ \o ReverseSigningSteps]
                  /\ txs' = [txs EXCEPT ![claimTx].witness = witness]
                  /\ revBroadcasts' = Append(revBroadcasts,
                        [tx |-> claimTx, witness |-> witness, done |-> FALSE])
                  /\ revH' = [revH EXCEPT ![i].pc = "broadcast",
                                          ![i].bc = Len(revBroadcasts) + 1]
                  /\ UNCHANGED revErrors
    /\ UNCHANGED <<revPc, revInvoices, revWs, revLog, claimTx, revSessions,
                   revClaimPosts, revCreatePosts, revOnFinish>>

ReverseClaimFails(i) ==
    /\ revH[i].pc = "claim"
    /\ revH' = [revH EXCEPT ![i].pc = "threw"]
    /\ revErrors' = Append(revErrors, "http")
    /\ UNCHANGED <<revPc, revInvoices, revWs, revLog, claimTx, txs, revSessions, revMusig,
                   revClaimPosts, revCreatePosts, revBroadcasts, revOnFinish>>

\* The broadcast POST answered (or failed).
ReverseBroadcastDone(i, ok) ==
    /\ revH[i].pc = "broadcast"
    /\ revH' = [revH EXCEPT ![i].pc = IF ok THEN "done" ELSE "threw"]
    /\ revBroadcasts' = IF ok THEN [revBroadcasts EXCEPT ![revH[i].bc].done = TRUE]
                              ELSE revBroadcasts
    /\ revErrors' = IF ok THEN revErrors ELSE Append(revErrors, "http")
    /\ UNCHANGED <<revPc, revInvoices, revWs, revLog, claimTx, txs, revSessions, revMusig,
                   revClaimPosts, revCreatePosts, revOnFinish>>

----------------------------------------------------------------------------
\* Invoice functions: decodeInvoice, getInvoiceExpireDate, getInvoiceValue

\* undefined (an absent field); every number of an invoice is >= 0.
Undefined == -1

Truthy(x) == x # Undefined /\ x # 0

\* Outcomes of a call: a returned value or a thrown Error.
Returned(v) == [kind |-> "value", value |-> v, error |-> ""]
Thrown(message) == [kind |-> "error", value |-> Undefined, error |-> message]

NoCall == [fn |-> "", result |-> Returned(Undefined)]

\* The amount fields bolt11.decode produces together: none for an invoice
\* without amount, millisatoshis alone for an amount that is no whole number
\* of satoshis, both otherwise.
Amounts == {<<Undefined, Undefined>>, <<Undefined, 999>>, <<Undefined, 1500>>,
            <<2500, 2500000>>}

\* bolt11.decode(invoice): the top-level fields and the tags the code reads.
DecodedInvoices ==
    {[satoshis |-> a[1], millisatoshis |-> a[2], timestamp |-> t,
      timeExpireDate |-> x, tags |-> [expire_time |-> e]] :
        a \in Amounts, t \in {Undefined, 0, 1700, 1700000},
        x \in {Undefined, 5300, 1703600}, e \in {Undefined, 60, 3600}}

NoInvoice == [satoshis |-> Undefined, millisatoshis |-> Undefined,
              timestamp |-> Undefined, timeExpireDate |-> Undefined,
              tags |-> [expire_time |-> Undefined]]

\* findTag: the top-level field when it is truthy, else the data of the tag
\* of that name, else undefined.
findTag(d, tag) ==
    IF tag \in (DOMAIN d \ {"tags"}) /\ Truthy(d[tag])
      THEN d[tag]
      ELSE IF tag \in DOMAIN d.tags THEN d.tags[tag] ELSE Undefined

\* x ?? y
Coalesce(x, y) == IF x = Undefined THEN y ELSE x

\* decodeInvoice: the fields of its response the other functions read.
decodeInvoice(d) ==
    LET sats == findTag(d, "satoshis")
    IN  [expire_time |-> findTag(d, "expire_time"),
         satoshis |-> IF Truthy(sats) THEN sats
                      ELSE Coalesce(findTag(d, "milisatoshis"), 0) \div 1000,
         timeExpireDate |-> findTag(d, "timeExpireDate"),
         timestamp |-> findTag(d, "timestamp")]

toMilliseconds(num) == num * 1000

DefaultExpiry == 3600

\* Mutant of getInvoiceExpireDate: the expiry is always derived from the
\* timestamp, the absolute expiry field is not looked at.
getInvoiceExpireDate_NoAbsolute(d) ==
    LET r == decodeInvoice(d)
    IN  IF ~Truthy(r.timestamp) THEN Thrown("Invoice without timestamp")
        ELSE Returned(r.timestamp
                      + toMilliseconds(Coalesce(r.expire_time, DefaultExpiry)))

\* Mutant of getInvoiceExpireDate: the absolute expiry field is tested before
\* the timestamp.
getInvoiceExpireDate_ExpiryFirst(d) ==
    LET r == decodeInvoice(d)
    IN  IF Truthy(r.timeExpireDate) THEN Returned(toMilliseconds(r.timeExpireDate))
        ELSE IF ~Truthy(r.timestamp) THEN Thrown("Invoice without timestamp")
        ELSE Returned(r.timestamp
                      + toMilliseconds(Coalesce(r.expire_time, DefaultExpiry)))

getInvoiceExpireDate(d) ==
    LET r == decodeInvoice(d)
    IN  IF ~Truthy(r.timestamp) THEN Thrown("Invoice without timestamp")
        ELSE IF Truthy(r.timeExpireDate) THEN Returned(toMilliseconds(r.timeExpireDate))
        ELSE Returned(r.timestamp
                      + toMilliseconds(Coalesce(r.expire_time, DefaultExpiry)))

\* fromSatoshi(satoshis, 8): satoshis * 10^-precision, kept as the pair.
fromSatoshi(satoshis, precision) == [units |-> satoshis, precision |-> precision]

getInvoiceValue(d) ==
    LET r == decodeInvoice(d)
    IN  IF ~Truthy(r.satoshis) THEN Thrown("Invoice without amount")
        ELSE Returned(fromSatoshi(r.satoshis, 8))

CallDecodeInvoice ==
    /\ invOut = NoCall
    /\ invOut' = [fn |-> "decodeInvoice", result |-> Returned(decodeInvoice(decoded))]
    /\ UNCHANGED decoded

CallGetInvoiceExpireDate ==
    /\ invOut = NoCall
    /\ invOut' = [fn |-> "getInvoiceExpireDate", result |-> getInvoiceExpireDate(decoded)]
    /\ UNCHANGED decoded

CallGetInvoiceValue ==
    /\ invOut = NoCall
    /\ invOut' = [fn |-> "getInvoiceValue", result |-> getInvoiceValue(decoded)]
    /\ UNCHANGED decoded

----------------------------------------------------------------------------
\* Refund transaction: getRefundTransaction, makeRefundTransaction

\* this.asset: the network's L-BTC asset, also the asset fees are paid in.
NetworkAsset == "L-BTC"

\* Length in bytes of the witness signature: bscript.signature.encode gives
\* the DER form plus the sighash byte.  r and s are written without their
\* leading zero bytes, r with one byte more when its first byte has its high
\* bit set (s is the low one, its high bit is clear): from 9 bytes, r and s
\* of one byte each, to 72.  Each build blinds with fresh randomness and signs
\* its own digest, so each build has its own length.
SigLens == 9 .. 72

\* Weight of a refund transaction without its signature, as its scripts and
\* proofs make it; the range holds a weight where one more signature byte
\* is one more virtual byte and one more satoshi of fee at 0.1 sat/vbyte.
BaseWeights == 5160 .. 5167

NoBlindingData == [value |-> Undefined]

\* satsPerByte is kept in hundredths of a satoshi per virtual byte: 0.1, 1.1.
RefundParams ==
    [utxo : [txid : {"lockupTxid"}, vout : {0, 1},
             witnessUtxo : BOOLEAN,
             blindingData : {NoBlindingData, [value |-> 10000], [value |-> 100000]}],
     redeemScript : {"redeemScript"},
     destinationScript : {"destinationScript"},
     blindingPublicKey : {"destinationBlindingKey"},
     timeoutBlockHeight : {Undefined, 1500},
     satsPerByte : {Undefined, 10, 110},
     baseWeight : BaseWeights]

NoParams ==
    [utxo |-> [txid |-> "", vout |-> 0, witnessUtxo |-> FALSE,
               blindingData |-> NoBlindingData],
     redeemScript |-> "", destinationScript |-> "", blindingPublicKey |-> "",
     timeoutBlockHeight |-> Undefined, satsPerByte |-> Undefined, baseWeight |-> 0]

\* The transaction Extractor.extract gives for the pset getRefundTransaction
\* creates, blinds, signs and finalizes.
RefundTx(params, fee, sigLen) ==
    [ins |-> << [txid |-> params.utxo.txid,
                 vout |-> params.utxo.vout,
                 sequence |-> 21,
                 heightLocktime |-> params.timeoutBlockHeight,
                 witness |-> <<"signature", "", params.redeemScript>>] >>,
     outs |-> << [script |-> params.destinationScript,
                  blindingPublicKey |-> params.blindingPublicKey,
                  asset |-> NetworkAsset,
                  amount |-> params.utxo.blindingData.value - fee],
                 [script |-> "",
                  blindingPublicKey |-> "",
                  asset |-> NetworkAsset,
                  amount |-> fee] >>,
     weight |-> params.baseWeight + sigLen]

\* Mutant of getRefundTransaction: the fee is not taken off the destination.
getRefundTransaction_FeeNotDeducted(params, fee, sigLen) ==
    IF params.utxo.blindingData = NoBlindingData THEN Thrown("utxo is not blinded")
    ELSE IF ~params.utxo.witnessUtxo THEN Thrown("utxo missing witnessUtxo")
    ELSE Returned([RefundTx(params, fee, sigLen) EXCEPT
                      !.outs[1].amount = params.utxo.blindingData.value])

\* Mutant of getRefundTransaction: no check of the blinding data, the value
\* defaults to 0 as in (utxo.blindingData?.value ?? 0).
getRefundTransaction_DefaultValue(params, fee, sigLen) ==
    IF params.utxo.blindingData = NoBlindingData
      THEN Returned([RefundTx(params, fee, sigLen) EXCEPT !.outs[1].amount = 0 - fee])
    ELSE IF ~params.utxo.witnessUtxo THEN Thrown("utxo missing witnessUtxo")
    ELSE Returned(RefundTx(params, fee, sigLen))

getRefundTransaction(params, fee, sigLen) ==
    IF params.utxo.blindingData = NoBlindingData THEN Thrown("utxo is not blinded")
    ELSE IF ~params.utxo.witnessUtxo THEN Thrown("utxo missing witnessUtxo")
    ELSE Returned(RefundTx(params, fee, sigLen))

\* Transaction.virtualSize(): the weight in units of 4, rounded up.
virtualSize(tx) == (tx.weight + 3) \div 4

RECURSIVE Pow2(_)
Pow2(k) == IF k = 0 THEN 1 ELSE 2 * Pow2(k - 1)

RECURSIVE Pow2Mod100(_)
Pow2Mod100(k) == IF k = 0 THEN 1 ELSE (2 * Pow2Mod100(k - 1)) % 100

\* The binary exponent e of the number rate / 100:
\* 2^e <= rate / 100 < 2^(e + 1).
DoubleExponent(rate) ==
    CHOOSE e \in -7 .. 10 :
        IF e >= 0 THEN 100 * Pow2(e) <= rate /\ rate < 200 * Pow2(e)
                  ELSE 100 <= rate * Pow2(-e) /\ rate * Pow2(-e) < 200

\* A satsPerByte of rate hundredths is, as a JavaScript number, the double
\* nearest to rate / 100: a multiple of 2^(e - 52).  It is
\* rate / 100 + DoubleError(rate) / 100 * 2^(e - 52).
DoubleError(rate) ==
    LET x == (rate * Pow2Mod100(52 - DoubleExponent(rate))) % 100
    IN  IF x < 50 THEN 0 - x ELSE 100 - x

FloorLog2(m) == CHOOSE k \in 0 .. 29 : Pow2(k) <= m /\ m < 2 * Pow2(k)

\* Math.ceil(n * satsPerByte), satsPerByte in hundredths, n an integer up
\* to 20000: the product is a double, the exact product rounded to the
\* nearest multiple of 2^(k - 52) for a product in [2^k, 2^(k + 1)).  Where
\* n * rate / 100 is no integer the ceiling is that of the exact product;
\* where it is an integer m, the double is above m, and the ceiling m + 1,
\* when the excess n * DoubleError / 100 * 2^(e - 52) is more than half a
\* step, 2^(k - 53).
CeilTimesRate(n, rate) ==
    IF (n * rate) % 100 # 0 THEN (n * rate) \div 100 + 1
    ELSE IF n * rate = 0 THEN 0
    ELSE LET m == (n * rate) \div 100
             e == DoubleExponent(rate)
             k == FloorLog2(m)
         IN  IF /\ DoubleError(rate) > 0
                /\ k - e <= 20
                /\ 2 * n * DoubleError(rate) > 100 * Pow2(k - e)
               THEN m + 1
               ELSE m

DummyFee == 300

DefaultSatsPerByte == 10

\* Math.ceil((tx.virtualSize() + tx.ins.length) * satsPerByte)
RefundFee(tx, params) ==
    CeilTimesRate(virtualSize(tx) + Len(tx.ins),
                  Coalesce(params.satsPerByte, DefaultSatsPerByte))

\* makeRefundTransaction: the getRefundTransaction calls it makes, in order.
\* A throw of the first call ends it.
MakeRefundBuilds(params, draftSigLen, finalSigLen) ==
    LET draft == getRefundTransaction(params, DummyFee, draftSigLen)
    IN  IF draft.kind = "error"
          THEN << [fee |-> DummyFee, result |-> draft] >>
          ELSE LET fee == RefundFee(draft.value, params)
               IN  << [fee |-> DummyFee, result |-> draft],
                      [fee |-> fee,
                       result |-> getRefundTransaction(params, fee, finalSigLen)] >>

CallGetRefundTransaction(fee, sigLen) ==
    /\ refOut = NoCall
    /\ refOut' = [fn |-> "getRefundTransaction",
                  result |-> getRefundTransaction(refParams, fee, sigLen)]
    /\ refBuilds' = << [fee |-> fee,
                        result |-> getRefundTransaction(refParams, fee, sigLen)] >>
    /\ UNCHANGED refParams

CallMakeRefundTransaction(draftSigLen, finalSigLen) ==
    LET builds == MakeRefundBuilds(refParams, draftSigLen, finalSigLen)
    IN  /\ refOut = NoCall
        /\ refBuilds' = builds
        /\ refOut' = [fn |-> "makeRefundTransaction",
                      result |-> builds[Len(builds)].result]
        /\ UNCHANGED refParams

----------------------------------------------------------------------------
\* Legacy swap scripts: validSwapReedemScript, isValidSubmarineSwap,
\* makeSubmarineSwap (domain/boltz.ts), extractInfoFromRefundableSwapParams

\* A script is its chunks, opcodes and data pushes; the bytes of a push are
\* written as two-digit hex strings.  truncated: the last push runs past the
\* end of the buffer, and script.decompile returns null.
Op(name) == [op |-> name, data |-> <<>>]
Data(bytes) == [op |-> "", data |-> bytes]

NoScript == [chunks |-> <<>>, truncated |-> FALSE]

\* hash160 of the preimage behind a payment hash, i.e. ripemd160(paymentHash).
PaymentHashes == {"paymentHash1", "paymentHash2"}
Ripemd160(paymentHash) ==
    IF paymentHash = "paymentHash1" THEN <<"a1">> ELSE <<"a2">>

ClaimKeyBytes == <<"03", "b0">>
RefundKeyBytes == {<<"02", "aa">>, <<"02", "bb">>}
TimeoutChunks == {Data(<<"dc", "05">>), Data(<<"80", "00">>), Op("OP_1")}

HtlcScript(h, k, t, r) ==
    << Op("OP_HASH160"), Data(h), Op("OP_EQUAL"), Op("OP_IF"), Data(k),
       Op("OP_ELSE"), t, Op("OP_NOP2"), Op("OP_DROP"), Data(r),
       Op("OP_ENDIF"), Op("OP_CHECKSIG") >>

HtlcScripts ==
    { HtlcScript(Ripemd160(ph), ClaimKeyBytes, t, r) :
        ph \in PaymentHashes, t \in TimeoutChunks, r \in RefundKeyBytes }

\* Deviations from one well-formed script: a chunk replaced, removed or added.
OtherChunks == {Op("OP_DUP"), Op("OP_CHECKSIG"), Data(<<"02", "bb">>)}
Replaced(chunks, i, c) == [chunks EXCEPT ![i] = c]
Removed(chunks, i) == SubSeq(chunks, 1, i - 1) \o SubSeq(chunks, i + 1, Len(chunks))
Added(chunks, i, c) == SubSeq(chunks, 1, i - 1) \o <<c>> \o SubSeq(chunks, i, Len(chunks))
BaseScript ==
    HtlcScript(Ripemd160("paymentHash1"), ClaimKeyBytes, Data(<<"dc", "05">>), <<"02", "aa">>)
Deviations ==
    { Replaced(BaseScript, i, c) : i \in 1 .. 12, c \in OtherChunks }
      \cup { Removed(BaseScript, i) : i \in 1 .. 12 }
      \cup { Added(BaseScript, i, c) : i \in 1 .. 13, c \in OtherChunks }
      \cup { <<>> }

RedeemScripts ==
    { [chunks |-> c, truncated |-> FALSE] : c \in HtlcScripts \cup Deviations }
      \cup { [chunks |-> BaseScript, truncated |-> TRUE] }

RECURSIVE Hex(_)
\* Buffer.toString('hex')
Hex(bytes) == IF bytes = <<>> THEN "" ELSE Head(bytes) \o Hex(Tail(bytes))

\* script.decompile(Buffer.from(redeemScript, 'hex')) || []
Decompile(redeemScript) ==
    IF redeemScript.truncated THEN <<>> ELSE redeemScript.chunks

\* One chunk in script.toASM: the opcode's name, or the push in hex; an empty
\* push is OP_0.
ChunkASM(chunk) ==
    IF chunk.op # "" THEN chunk.op
    ELSE IF chunk.data = <<>> THEN "OP_0"
    ELSE Hex(chunk.data)

\* script.toASM(...).split(' '): the tokens hold no space, so the split gives
\* them back; the empty string splits into one empty token.
ScriptAssembly(redeemScript) ==
    LET chunks == Decompile(redeemScript)
    IN  IF chunks = <<>> THEN <<"">>
        ELSE [i \in 1 .. Len(chunks) |-> ChunkASM(chunks[i])]

\* array[i] of JavaScript, i counted from 0; "undefined" stands for undefined.
UndefinedToken == "undefined"
At(array, i) == IF i + 1 \in DOMAIN array THEN array[i + 1] ELSE UndefinedToken

RECURSIVE Join(_)
\* Array.prototype.join(): comma-separated, undefined as the empty string.
Join(array) ==
    LET first == IF Head(array) = UndefinedToken THEN "" ELSE Head(array)
    IN  IF array = <<>> THEN ""
        ELSE IF Len(array) = 1 THEN first
        ELSE first \o "," \o Join(Tail(array))

\* Mutant of validSwapReedemScript: the key is read from the script as well.
validSwapReedemScript_AnyKey(redeemScript, refundPublicKey) ==
    LET scriptAssembly == ScriptAssembly(redeemScript)
        expectedScript ==
            << "OP_HASH160", At(scriptAssembly, 1), "OP_EQUAL", "OP_IF",
               At(scriptAssembly, 4), "OP_ELSE", At(scriptAssembly, 6), "OP_NOP2",
               "OP_DROP", At(scriptAssembly, 9), "OP_ENDIF", "OP_CHECKSIG" >>
    IN  Join(scriptAssembly) = Join(expectedScript)

validSwapReedemScript(redeemScript, refundPublicKey) ==
    LET scriptAssembly == ScriptAssembly(redeemScript)
        boltzHash == At(scriptAssembly, 4)
        cltv == At(scriptAssembly, 6)
        preimageHash == At(scriptAssembly, 1)
        expectedScript ==
            << "OP_HASH160", preimageHash, "OP_EQUAL", "OP_IF", boltzHash,
               "OP_ELSE", cltv, "OP_NOP2", "OP_DROP", refundPublicKey,
               "OP_ENDIF", "OP_CHECKSIG" >>
    IN  Join(scriptAssembly) = Join(expectedScript)

isValidSubmarineSwap(redeemScript, refundPublicKey) ==
    validSwapReedemScript(redeemScript, refundPublicKey)

CallIsValidSubmarineSwap ==
    /\ legOut = NoCall
    /\ legOut' = [fn |-> "isValidSubmarineSwap",
                  result |-> Returned(isValidSubmarineSwap(legScript, legKey))]
    /\ UNCHANGED <<legScript, legKey, legInvoice, legExtracts, mkPc, mkAnswered, mkOut>>

\* Value of a two-digit hex string, for the bytes the scripts here hold.
HexDigits ==
    [b \in {"00", "02", "03", "05", "80", "a1", "a2", "aa", "b0", "bb", "dc"} |->
       CASE b = "00" -> 0   [] b = "02" -> 2   [] b = "03" -> 3   [] b = "05" -> 5
         [] b = "80" -> 128 [] b = "a1" -> 161 [] b = "a2" -> 162 [] b = "aa" -> 170
         [] b = "b0" -> 176 [] b = "bb" -> 187 [] b = "dc" -> 220]

\* The byte strings a token can be the hex of: up to two bytes.
ByteStrings ==
    {<<a>> : a \in DOMAIN HexDigits} \cup {<<a, b>> : a, b \in DOMAIN HexDigits}
IsHex(token) == \E bytes \in ByteStrings : Hex(bytes) = token
BytesOf(token) == CHOOSE bytes \in ByteStrings : Hex(bytes) = token

Reverse(seq) == [i \in 1 .. Len(seq) |-> seq[Len(seq) + 1 - i]]

\* swapEndian of application/utils: the bytes of a hex string in reverse
\* order.  It is called on a string; on undefined it throws a TypeError (see
\* ParseSwapped).
swapEndian(hex) == Hex(Reverse(BytesOf(hex)))

NaN == Undefined - 1

RECURSIVE BigEndian(_)
BigEndian(bytes) ==
    IF bytes = <<>> THEN 0
    ELSE BigEndian(SubSeq(bytes, 1, Len(bytes) - 1)) * 256 + HexDigits[bytes[Len(bytes)]]

\* parseInt(swapEndian(token), 16): swapEndian throws a TypeError on an
\* absent token; the number is NaN when the token is no hex.
ParseSwapped(token) ==
    IF token = UndefinedToken THEN Thrown("TypeError")
    ELSE IF ~IsHex(token) THEN Returned(NaN)
    ELSE Returned(BigEndian(BytesOf(swapEndian(token))))

DefaultNetwork == "liquid"
Networks == {"", "testnet"}

\* addressFromScript of extension/utility/address: the address of the script
\* on the network.
addressFromScript(redeemScript, network) ==
    [scriptOf |-> redeemScript, network |-> network]

extractInfoFromRefundableSwapParams(params) ==
    LET network == IF params.network = "" THEN DefaultNetwork ELSE params.network
        fundingAddress == addressFromScript(params.redeemScript, network)
        scriptAssembly == ScriptAssembly(params.redeemScript)
        timeoutBlockHeight == ParseSwapped(At(scriptAssembly, 6))
    IN  IF timeoutBlockHeight.kind = "error" THEN timeoutBlockHeight
        ELSE Returned(
               [blindingKey |-> params.blindingKey,
                fundingAddress |-> fundingAddress,
                redeemScript |-> params.redeemScript,
                refundPublicKey |-> At(scriptAssembly, 9),
                timeoutBlockHeight |-> timeoutBlockHeight.value])

MaxExtracts == 2

\* One call of extractInfoFromRefundableSwapParams on the script: what it
\* returned, or the error it threw, is kept with its parameters.
CallExtractInfo(network) ==
    LET params == [blindingKey |-> "blindingKey", redeemScript |-> legScript,
                   network |-> network]
    IN  /\ Len(legExtracts) < MaxExtracts
        /\ legExtracts' = Append(legExtracts,
              [params |-> params,
               result |-> extractInfoFromRefundableSwapParams(params)])
        /\ UNCHANGED <<legScript, legKey, legInvoice, legOut, mkPc, mkAnswered, mkOut>>

\* makeSubmarineSwap up to its first await.
MakeSubmarineSwapCall ==
    /\ mkPc = "idle"
    /\ mkPc' = "AccountFactory.create"
    /\ UNCHANGED <<legScript, legKey, legInvoice, legOut, legExtracts, mkAnswered, mkOut>>

\* AccountFactory.create, accountFactory.make and getNextAddress settle in
\* turn; the address gives the refund public key (legKey) and
\* createSubmarineSwap is requested.
MakeSubmarineSwapAccount ==
    /\ mkPc \in {"AccountFactory.create", "accountFactory.make", "getNextAddress"}
    /\ mkPc' = CASE mkPc = "AccountFactory.create" -> "accountFactory.make"
                 [] mkPc = "accountFactory.make" -> "getNextAddress"
                 [] mkPc = "getNextAddress" -> "creating"
    /\ UNCHANGED <<legScript, legKey, legInvoice, legOut, legExtracts, mkAnswered, mkOut>>

\* What the wallet's promises may reject with.
WalletErrors == {"wallet is locked"}

\* One of the three rejects: makeSubmarineSwap rejects with its error and no
\* request is made.
MakeSubmarineSwapAccountFails(message) ==
    /\ mkPc \in {"AccountFactory.create", "accountFactory.make", "getNextAddress"}
    /\ mkPc' = "done"
    /\ mkOut' = Thrown(message)
    /\ UNCHANGED <<legScript, legKey, legInvoice, legOut, legExtracts, mkAnswered>>

\* The request fails: postApi throws and the promise rejects.
MakeSubmarineSwapCreateFails ==
    /\ mkPc = "creating"
    /\ mkPc' = "done"
    /\ mkOut' = Thrown("createswap failed")
    /\ UNCHANGED <<legScript, legKey, legInvoice, legOut, legExtracts, mkAnswered>>

\* Mutant of MakeSubmarineSwapCreated: the answer is returned unvalidated.
MakeSubmarineSwapCreated_Unvalidated(address, expectedAmount) ==
    /\ mkPc = "creating"
    /\ mkPc' = "done"
    /\ mkAnswered' = TRUE
    /\ mkOut' = Returned([address |-> address, expectedAmount |-> expectedAmount])
    /\ UNCHANGED <<legScript, legKey, legInvoice, legOut, legExtracts>>

\* The service answers with legScript as redeem script.
MakeSubmarineSwapCreated(address, expectedAmount) ==
    /\ mkPc = "creating"
    /\ mkPc' = "done"
    /\ mkAnswered' = TRUE
    /\ mkOut' = IF ~isValidSubmarineSwap(legScript, legKey)
                  THEN Thrown("invalid submarine swap")
                  ELSE Returned([address |-> address, expectedAmount |-> expectedAmount])
    /\ UNCHANGED <<legScript, legKey, legInvoice, legOut, legExtracts>>

----------------------------------------------------------------------------
\* getLiquidAddress

\* A string is written as its pieces, the separators ":" and "?" among them.
\* The pieces before the first occurrence of sep, and those after it.
RECURSIVE UpTo(_, _)
UpTo(str, sep) ==
    IF str = <<>> \/ Head(str) = sep THEN <<>> ELSE <<Head(str)>> \o UpTo(Tail(str), sep)
After(str, sep) == SubSeq(str, Len(UpTo(str, sep)) + 2, Len(str))

\* str.split(sep)[0] and str.split(sep)[1]; the latter is undefined when sep
\* does not occur.
SplitFirst(str, sep) == UpTo(str, sep)
HasSecond(str, sep) == Len(UpTo(str, sep)) < Len(str)
SplitSecond(str, sep) == UpTo(After(str, sep), sep)

HintKeys == {"boltzKey", "otherKey", "thirdKey"}
LiquidAddresses == {"lq1address", "lq1other"}

\* A Schnorr signature: who made it, over what.
SchnorrSignatures ==
    [signer : HintKeys \cup {"nobody"}, message : {<<"sha256", a>> : a \in LiquidAddresses}]
verifySchnorr(publicKey, hash, signature) ==
    signature.signer = publicKey /\ signature.message = hash

Bip21s ==
    UNION { { <<"liquidnetwork", ":", a>>,
              <<"liquidnetwork", ":", a, "?", "amount=0.001", "&", "label=a", ":", "b">>,
              <<a>> } : a \in LiquidAddresses }

Bip21Answers == [bip21 : Bip21s, signature : SchnorrSignatures]
NoAnswer == [bip21 |-> <<>>, signature |-> [signer |-> "", message |-> <<>>]]

\* getLiquidAddress up to the await of the GET.
GetLiquidAddressCall ==
    /\ laPc = "idle"
    /\ laPc' = "getting"
    /\ UNCHANGED <<laHint, laAnswer, laOut>>

\* axios.get rejected.
GetLiquidAddressFails ==
    /\ laPc = "getting"
    /\ laPc' = "done"
    /\ laOut' = Thrown("http")
    /\ UNCHANGED <<laHint, laAnswer>>

\* Mutant of VerifiedAddress: the signature is not looked at.
VerifiedAddress_Unchecked(bip21Data, pubkey) ==
    IF ~HasSecond(bip21Data.bip21, ":") THEN Thrown("TypeError")
    ELSE Returned(SplitFirst(SplitSecond(bip21Data.bip21, ":"), "?"))

\* getLiquidAddress from the answer on.
VerifiedAddress(bip21Data, pubkey) ==
    IF ~HasSecond(bip21Data.bip21, ":") THEN Thrown("TypeError")
    ELSE LET bip21Address == SplitFirst(SplitSecond(bip21Data.bip21, ":"), "?")
         IN  IF ~verifySchnorr(pubkey, <<"sha256">> \o bip21Address, bip21Data.signature)
               THEN Thrown("BOLTZ IS TRYING TO CHEAT")
               ELSE Returned(bip21Address)

GetLiquidAddressAnswered(bip21Data) ==
    /\ laPc = "getting"
    /\ laPc' = "done"
    /\ laAnswer' = bip21Data
    /\ laOut' = VerifiedAddress(bip21Data, laHint)
    /\ UNCHANGED laHint

----------------------------------------------------------------------------
\* The send-lightning form (LightningInvoice) and what it stores

\* short_channel_id of the magic routing hint
MagicChannelId == "0846c900051c0000"
NoHint == [short_channel_id |-> "", pubkey |-> ""]
MagicHintOf(pubkey) == [short_channel_id |-> MagicChannelId, pubkey |-> pubkey]
OtherRoute == [short_channel_id |-> "0123450000670000", pubkey |-> "nodeKey"]

\* What bolt11.decode gives for an invoice of the given amount, absolute
\* expiry (seconds) and routing info.
SendDecoded(sats, expire, routes) ==
    [satoshis |-> sats, millisatoshis |-> IF sats = Undefined THEN Undefined ELSE sats * 1000,
     timestamp |-> 1700, timeExpireDate |-> expire,
     tags |-> [expire_time |-> 3600, routing_info |-> routes]]

\* The texts typed or pasted into the invoice field; "" is the emptied field.
InvoiceTexts ==
    {"lnPlain", "lnHinted", "lnOther", "lnExpired", "lnSmall", "lnLarge",
     "lnNoAmount", "garbage"}

\* bolt11.decode throws on a text that is no invoice.
Bolt11Throws(text) == text \notin (InvoiceTexts \ {"garbage"})

bolt11decode(text) ==
    CASE text = "lnPlain"    -> SendDecoded(2500, 5300, <<OtherRoute>>)
      [] text = "lnHinted"   -> SendDecoded(2500, 5300, <<OtherRoute, MagicHintOf("boltzKey")>>)
      [] text = "lnOther"    -> SendDecoded(3000, 5300, <<>>)
      [] text = "lnExpired"  -> SendDecoded(2500, 1900, <<>>)
      [] text = "lnSmall"    -> SendDecoded(500, 5300, <<>>)
      [] text = "lnLarge"    -> SendDecoded(2000000, 5300, <<>>)
      [] text = "lnNoAmount" -> SendDecoded(Undefined, 5300, <<>>)
      [] OTHER -> NoInvoice

\* decodeInvoice(invoice).magicHint: the first route of routing_info whose
\* short_channel_id is the magic one (NoHint for undefined).
FirstMagic(routes) ==
    IF \E i \in DOMAIN routes : routes[i].short_channel_id = MagicChannelId
      THEN routes[CHOOSE i \in DOMAIN routes :
                    /\ routes[i].short_channel_id = MagicChannelId
                    /\ \A j \in DOMAIN routes :
                          routes[j].short_channel_id = MagicChannelId => i <= j]
      ELSE NoHint

getMagicHint(d) ==
    FirstMagic(IF "routing_info" \in DOMAIN d.tags THEN d.tags.routing_info ELSE <<>>)

\* The pairs the service may answer getBoltzPair with; percentageSwapIn is
\* held in hundredths of a percent (10 is 0.1).
BoltzPairs ==
    [minimal : {1000}, maximal : {1000000}, percentageSwapIn : {10, 50}, minerFees : {19}]
NoPair == [minimal |-> 0, maximal |-> 0, percentageSwapIn |-> 0, minerFees |-> 0]

\* Mutant of calcBoltzFees: the fee is rounded down.
calcBoltzFees_Floor(pair, amountInSats) ==
    (amountInSats * pair.percentageSwapIn) \div 10000 + pair.minerFees

\* calcBoltzFees: ceil(amountInSats * percentage / 100 + minersFees), in
\* exact decimal arithmetic.
calcBoltzFees(pair, amountInSats) ==
    (amountInSats * pair.percentageSwapIn + pair.minerFees * 10000 + 9999) \div 10000

RECURSIVE Pow10(_)
Pow10(n) == IF n = 0 THEN 1 ELSE 10 * Pow10(n - 1)

\* toSatoshi of extension/utility: value * 10^precision.
toSatoshi(value, precision) ==
    IF precision >= value.precision
      THEN value.units * Pow10(precision - value.precision)
      ELSE value.units \div Pow10(value.precision - precision)

\* L-BTC balances of the wallet (cache.balances).
Balances == {2522, 3000000}

\* Date.now() while the form is shown, in milliseconds.
Now == 2000000

\* useState initial values of the component.
NoForm ==
    [error |-> "", invoice |-> "", isSubmitting |-> FALSE, magicHint |-> NoHint,
     swapFees |-> 0, touched |-> FALSE, value |-> fromSatoshi(0, 8), warning |-> ""]

\* sendFlowData with no key set; getSendFlowData gives undefined before the
\* first update and after reset, and {...undefined, ...data} is data.
NoSendFlow ==
    [receiverAddress |-> <<>>, amount |-> 0, asset |-> "", pset |-> "",
     swapInfo |-> [invoice |-> "", refundPublicKey |-> "", timeoutBlockHeight |-> 0]]

\* The effect of getBoltzPair: setPair(_pair).
FetchPair(pair) ==
    /\ sendRoute = "form"
    /\ sendPair = NoPair
    /\ sendPair' = pair
    /\ UNCHANGED <<sendBalance, sendInput, sendForm, sendRoute, sendProceeds,
                   refundableSwaps, sendFlow, sendFlowCalls, sendKeyIndex, sendSwapPosts>>

\* Mutant of Validated: the balance is not compared with value plus fees.
Validated_FeesUnchecked(form, invoice, valueInSats, fees, expirationDate) ==
    IF Now > expirationDate THEN [form EXCEPT !.error = "Expired invoice"]
    ELSE IF valueInSats <= 0 THEN [form EXCEPT !.error = "Value must be positive"]
    ELSE IF valueInSats < sendPair.minimal
      THEN [form EXCEPT !.error = "Value must be higher or equal then "
                                     \o ToString(sendPair.minimal)]
    ELSE IF valueInSats > sendPair.maximal
      THEN [form EXCEPT !.error = "Value must be lower or equal then "
                                     \o ToString(sendPair.maximal)]
    ELSE IF valueInSats > sendBalance THEN [form EXCEPT !.error = "Insufficient funds"]
    ELSE [form EXCEPT !.invoice = invoice,
                      !.warning = IF valueInSats + fees + 300 > sendBalance
                                    THEN "You may not have enough funds to pay swap"
                                    ELSE ""]

\* The validations of handleChange, in order, then setWarning and setInvoice.
\* The value of a decoded invoice is a number, never NaN.
Validated(form, invoice, valueInSats, fees, expirationDate) ==
    IF Now > expirationDate THEN [form EXCEPT !.error = "Expired invoice"]
    ELSE IF valueInSats <= 0 THEN [form EXCEPT !.error = "Value must be positive"]
    ELSE IF valueInSats < sendPair.minimal
      THEN [form EXCEPT !.error = "Value must be higher or equal then "
                                     \o ToString(sendPair.minimal)]
    ELSE IF valueInSats > sendPair.maximal
      THEN [form EXCEPT !.error = "Value must be lower or equal then "
                                     \o ToString(sendPair.maximal)]
    ELSE IF valueInSats + fees > sendBalance
      THEN [form EXCEPT !.error = "Insufficient funds to pay swap fee"]
    ELSE IF valueInSats > sendBalance THEN [form EXCEPT !.error = "Insufficient funds"]
    ELSE [form EXCEPT !.invoice = invoice,
                      !.warning = IF valueInSats + fees + 300 > sendBalance
                                    THEN "You may not have enough funds to pay swap"
                                    ELSE ""]

\* handleChange: the input element exists once the pair is loaded, and fires
\* when its text changes.
handleChange(text) ==
    /\ sendRoute = "form"
    /\ sendPair # NoPair
    /\ text # sendInput
    /\ sendInput' = text
    /\ LET cleared == [sendForm EXCEPT !.error = "", !.warning = "", !.touched = TRUE]
           d == bolt11decode(text)
           value == getInvoiceValue(d)
           magicHint == getMagicHint(d)
           expirationDate == getInvoiceExpireDate(d)
       IN  IF text = ""
             THEN sendForm' = [cleared EXCEPT !.touched = FALSE, !.value = fromSatoshi(0, 8)]
           ELSE IF Bolt11Throws(text) \/ value.kind = "error" \/ expirationDate.kind = "error"
             THEN sendForm' = [cleared EXCEPT !.error = "Invalid invoice"]
           ELSE LET valueInSats == toSatoshi(value.value, 8)
                    fees == IF magicHint # NoHint THEN 0
                            ELSE calcBoltzFees(sendPair, valueInSats)
                    decodedForm ==
                        [cleared EXCEPT !.magicHint = IF magicHint # NoHint THEN magicHint ELSE @,
                                        !.swapFees = fees,
                                        !.value = value.value]
                IN  sendForm' = Validated(decodedForm, text, valueInSats, fees,
                                          expirationDate.value)
    /\ UNCHANGED <<sendPair, sendBalance, sendRoute, sendProceeds, refundableSwaps,
                   sendFlow, sendFlowCalls, sendKeyIndex, sendSwapPosts>>

isButtonDisabled(form) == form.invoice = "" \/ form.error # "" \/ form.isSubmitting

MaxProceeds == 2

\* What findSwapWithInvoice answers when no swap is saved for the invoice.
NoSwap ==
    [blindingKey |-> "", confidentialAddress |-> <<>>, expectedAmount |-> 0,
     expirationDate |-> 0, id |-> "", invoice |-> "", fundingAddress |-> <<>>,
     redeemScript |-> NoScript, refundPublicKey |-> "", network |-> ""]

\* What a handleProceed call holds: the state of the render it was clicked
\* in (invoice, magicHint, value), the refund key it derived, the arguments
\* of the refundableSwapsRepository and sendFlowRepository calls it makes
\* (swap; receiverAddress, amount, swapInfo), the currentData its pending
\* updateSendFlowData has read,
\* where it stands, and whether the component it was clicked in is the one
\* on screen (mounted): the setters of a call act on its own component.
Proceeding(pc) ==
    [pc |-> pc, invoice |-> sendForm.invoice, magicHint |-> sendForm.magicHint,
     value |-> sendForm.value, refundPublicKey |-> "",
     swap |-> NoSwap, receiverAddress |-> <<>>, amount |-> 0,
     swapInfo |-> NoSendFlow.swapInfo, currentData |-> NoSendFlow, mounted |-> TRUE]

\* A click on Proceed: handleProceed up to its first await, or its throw.
handleProceed ==
    /\ sendRoute = "form"
    /\ ~isButtonDisabled(sendForm)
    /\ Len(sendProceeds) < MaxProceeds
    /\ IF sendForm.magicHint # NoHint
         THEN /\ sendProceeds' = Append(sendProceeds,
                    IF sendForm.value.units = 0 THEN Proceeding("Invoice value is undefined")
                                                ELSE Proceeding("getLiquidAddress"))
              /\ UNCHANGED sendForm
         ELSE /\ sendProceeds' = Append(sendProceeds, Proceeding("findSwapWithInvoice"))
              /\ sendForm' = [sendForm EXCEPT !.isSubmitting = TRUE]
    /\ UNCHANGED <<sendPair, sendBalance, sendInput, sendRoute, refundableSwaps,
                   sendFlow, sendFlowCalls, sendKeyIndex, sendSwapPosts>>

\* The answers to GET swap/reverse/{invoice}/bip21 taken here.
SendBip21Answers ==
    {b \in Bip21Answers : /\ b.bip21 = <<"liquidnetwork", ":", "lq1address">>
                          /\ b.signature.message = <<"sha256", "lq1address">>
                          /\ b.signature.signer \in {"boltzKey", "nobody"}}

\* getLiquidAddress settled: its throw, or the call of
\* setReceiverAddressAmount, which stands at its getSendFlowData.
ProceedAddressAnswered(i, bip21Data) ==
    /\ sendProceeds[i].pc = "getLiquidAddress"
    /\ LET address == VerifiedAddress(bip21Data, sendProceeds[i].magicHint.pubkey)
       IN  IF address.kind = "error"
             THEN sendProceeds' = [sendProceeds EXCEPT ![i].pc = address.error]
             ELSE IF address.value = <<>>
             THEN sendProceeds' = [sendProceeds EXCEPT ![i].pc = "Liquid address not found"]
             ELSE sendProceeds' = [sendProceeds EXCEPT
                     ![i].pc = "setReceiverAddressAmount.get",
                     ![i].receiverAddress = address.value,
                     ![i].amount = toSatoshi(sendProceeds[i].value, 8)]
    /\ UNCHANGED <<sendPair, sendBalance, sendInput, sendForm, sendRoute, refundableSwaps,
                   sendFlow, sendFlowCalls, sendKeyIndex, sendSwapPosts>>

\* The refundable swaps repository: addSwap appends, findSwapWithInvoice
\* gives the first swap saved for the invoice (NoSwap for undefined).
findSwapWithInvoice(swaps, invoice) ==
    IF \E k \in DOMAIN swaps : swaps[k].invoice = invoice
      THEN swaps[CHOOSE k \in DOMAIN swaps :
                    /\ swaps[k].invoice = invoice
                    /\ \A j \in DOMAIN swaps : swaps[j].invoice = invoice => k <= j]
      ELSE NoSwap

addSwap(swaps, swap) == Append(swaps, swap)

\* The public keys of the addresses mainAccount.getNextAddress(false) gives,
\* one after the other.
WalletKeyBytes == << <<"02", "aa">>, <<"02", "bb">>, <<"03", "c1">>, <<"03", "c2">> >>
getNextAddress(index) == [publicKey |-> Hex(WalletKeyBytes[index])]

\* The refund leaf of a swap tree: the x-only refund key, then the timeout.
TapRefundLeaf(keyBytes, timeout) ==
    << Data(Tail(keyBytes)), Op("OP_CHECKSIGVERIFY"), timeout,
       Op("OP_CHECKLOCKTIMEVERIFY") >>

\* The timeout of the swaps the service creates here, and its script number.
SwapTimeoutBlockHeight == 1500
SwapTimeoutChunk == Data(<<"dc", "05">>)

\* What the service may answer to POST swap/submarine for a refund key: the
\* refund leaf of its swap tree, or a script of the layout of the legacy
\* swaps in its place, with or without address and amount; or an answer
\* without swapTree (no answer is refused, isValidSubmarineSwapResponse).
SendSwapResponses(refundPublicKey) ==
    LET keyBytes == CHOOSE k \in {WalletKeyBytes[i] : i \in DOMAIN WalletKeyBytes} :
                       Hex(k) = refundPublicKey
    IN  { [address |-> a[1], expectedAmount |-> a[2], blindingKey |-> "blindingKey",
           id |-> "swapId", timeoutBlockHeight |-> SwapTimeoutBlockHeight,
           swapTree |-> TRUE,
           refundLeaf |-> [chunks |-> c, truncated |-> FALSE]] :
            a \in {<< <<"lq1swap">>, 2522 >>, << <<>>, 2522 >>},
            c \in {TapRefundLeaf(keyBytes, SwapTimeoutChunk),
                   HtlcScript(Ripemd160("paymentHash1"), ClaimKeyBytes,
                              SwapTimeoutChunk, keyBytes)} }
        \cup
        { [address |-> <<"lq1swap">>, expectedAmount |-> 2522,
           blindingKey |-> "blindingKey", id |-> "swapId",
           timeoutBlockHeight |-> SwapTimeoutBlockHeight,
           swapTree |-> FALSE, refundLeaf |-> NoScript] }

\* findSwapWithInvoice settled: with a saved swap that has an address and an
\* amount, setReceiverAddressAmount is called with them and stands at its
\* getSendFlowData; otherwise handleProceed awaits AccountFactory.create.
ProceedFound(i) ==
    /\ sendProceeds[i].pc = "findSwapWithInvoice"
    /\ LET swapOnCache == findSwapWithInvoice(refundableSwaps, sendProceeds[i].invoice)
       IN  IF swapOnCache.confidentialAddress # <<>> /\ swapOnCache.expectedAmount # 0
             THEN sendProceeds' = [sendProceeds EXCEPT
                     ![i].pc = "setReceiverAddressAmount.get",
                     ![i].receiverAddress = swapOnCache.confidentialAddress,
                     ![i].amount = swapOnCache.expectedAmount]
             ELSE sendProceeds' = [sendProceeds EXCEPT ![i].pc = "AccountFactory.create"]
    /\ UNCHANGED <<sendPair, sendBalance, sendInput, sendForm, sendRoute, refundableSwaps,
                   sendFlow, sendFlowCalls, sendKeyIndex, sendSwapPosts>>

\* AccountFactory.create, then accountFactory.make answered: handleProceed
\* awaits the next of the two, then getNextAddress.
ProceedAccount(i) ==
    /\ sendProceeds[i].pc \in {"AccountFactory.create", "accountFactory.make"}
    /\ sendProceeds' = [sendProceeds EXCEPT
          ![i].pc = IF @ = "AccountFactory.create" THEN "accountFactory.make"
                    ELSE "getNextAddress"]
    /\ UNCHANGED <<sendPair, sendBalance, sendInput, sendForm, sendRoute, refundableSwaps,
                   sendFlow, sendFlowCalls, sendKeyIndex, sendSwapPosts>>

\* getNextAddress answered with the next wallet key: makeSwap is called with
\* it and submarineSwap posts the swap request.
ProceedKeyDerived(i) ==
    /\ sendProceeds[i].pc = "getNextAddress"
    /\ sendKeyIndex < Len(WalletKeyBytes)
    /\ LET refundPublicKey == getNextAddress(sendKeyIndex + 1).publicKey
       IN  /\ sendKeyIndex' = sendKeyIndex + 1
           /\ sendSwapPosts' = Append(sendSwapPosts,
                 [invoice |-> sendProceeds[i].invoice,
                  refundPublicKey |-> refundPublicKey])
           /\ sendProceeds' = [sendProceeds EXCEPT
                 ![i].pc = "submarineSwap", ![i].refundPublicKey = refundPublicKey]
    /\ UNCHANGED <<sendPair, sendBalance, sendInput, sendForm, sendRoute, refundableSwaps,
                   sendFlow, sendFlowCalls>>

\* The catch of makeSwap: setError(err.message) and setIsSubmitting(false),
\* on the component the call was clicked in; makeSwap returns undefined.
MakeSwapCaught(i, message) ==
    IF sendProceeds[i].mounted
      THEN [sendForm EXCEPT !.error = message, !.isSubmitting = FALSE]
      ELSE sendForm

\* The message of the TypeError that swapTree.refundLeaf throws on an
\* answer without swapTree.
NoSwapTreeError == "Cannot read properties of undefined (reading 'refundLeaf')"

\* submarineSwap resolved with the service's answer: makeSwap calls addSwap
\* with the swap to save and awaits it.  On an answer without swapTree the
\* read of swapTree.refundLeaf throws into the catch, and handleProceed
\* returns.
ProceedSwapCreated(i, swap) ==
    /\ sendProceeds[i].pc = "submarineSwap"
    /\ sendForm' = IF swap.swapTree THEN sendForm ELSE MakeSwapCaught(i, NoSwapTreeError)
    /\ LET invoice == sendProceeds[i].invoice
           refundPublicKey == sendProceeds[i].refundPublicKey
           fundingAddress == addressFromScript(swap.refundLeaf, DefaultNetwork)
           expirationDate == getInvoiceExpireDate(bolt11decode(invoice))
       IN  IF ~swap.swapTree
           THEN sendProceeds' = [sendProceeds EXCEPT ![i].pc = "returned"]
           ELSE
           sendProceeds' = [sendProceeds EXCEPT
              ![i].pc = "addSwap",
              ![i].swap = [blindingKey |-> swap.blindingKey,
                           confidentialAddress |-> swap.address,
                           expectedAmount |-> swap.expectedAmount,
                           expirationDate |-> expirationDate.value,
                           id |-> swap.id,
                           invoice |-> invoice,
                           fundingAddress |-> fundingAddress,
                           redeemScript |-> swap.refundLeaf,
                           refundPublicKey |-> refundPublicKey,
                           network |-> DefaultNetwork],
              ![i].swapInfo = [invoice |-> invoice,
                               refundPublicKey |-> refundPublicKey,
                               timeoutBlockHeight |-> swap.timeoutBlockHeight],
              ![i].receiverAddress = swap.address,
              ![i].amount = swap.expectedAmount]
    /\ UNCHANGED <<sendPair, sendBalance, sendInput, sendRoute, refundableSwaps,
                   sendFlow, sendFlowCalls, sendKeyIndex, sendSwapPosts>>

\* addSwap saved the swap: makeSwap returns the answer and handleProceed
\* calls setSwapInfo, which stands at its getSendFlowData.
ProceedSwapSaved(i) ==
    /\ sendProceeds[i].pc = "addSwap"
    /\ refundableSwaps' = addSwap(refundableSwaps, sendProceeds[i].swap)
    /\ sendProceeds' = [sendProceeds EXCEPT ![i].pc = "setSwapInfo.get"]
    /\ UNCHANGED <<sendPair, sendBalance, sendInput, sendForm, sendRoute, sendFlow,
                   sendFlowCalls,
                   sendKeyIndex, sendSwapPosts>>

\* What addSwap may reject with: the message of the storage's error.
StorageErrors == {"QUOTA_BYTES quota exceeded"}

\* addSwap rejected: the catch of makeSwap, and handleProceed returns.
\* (submarineSwap itself never rejects: a call whose request fails stays at
\* its await.)
ProceedSwapNotSaved(i, message) ==
    /\ sendProceeds[i].pc = "addSwap"
    /\ sendProceeds' = [sendProceeds EXCEPT ![i].pc = "returned"]
    /\ sendForm' = MakeSwapCaught(i, message)
    /\ UNCHANGED <<sendPair, sendBalance, sendInput, sendRoute, refundableSwaps,
                   sendFlow, sendFlowCalls, sendKeyIndex, sendSwapPosts>>

\* SendFlowStorageAPI.updateSendFlowData(data) writes {...currentData,
\* ...data}: the keys of data replace those of what getSendFlowData read.
setReceiverAddressAmount(currentData, address, amount) ==
    [currentData EXCEPT !.receiverAddress = address, !.amount = amount]

setSwapInfo(currentData, swapInfo) == [currentData EXCEPT !.swapInfo = swapInfo]

setSelectedAsset(currentData, asset) == [currentData EXCEPT !.asset = asset]

setUnsignedPset(currentData, pset) == [currentData EXCEPT !.pset = pset]

\* The updates other screens of the send flow call, with their argument.
FlowUpdates == {[fn |-> "setSelectedAsset", arg |-> "L-BTC"],
                [fn |-> "setUnsignedPset", arg |-> "unsignedPset"]}

MaxFlowCalls == 2

\* Another screen calls setSelectedAsset or setUnsignedPset:
\* updateSendFlowData awaits getSendFlowData.
SendFlowCalled(update) ==
    /\ Len(sendFlowCalls) < MaxFlowCalls
    /\ sendFlowCalls' = Append(sendFlowCalls,
          [fn |-> update.fn, arg |-> update.arg, pc |-> "get", currentData |-> NoSendFlow])
    /\ UNCHANGED <<sendPair, sendBalance, sendInput, sendForm, sendRoute, sendProceeds,
                   refundableSwaps, sendFlow, sendKeyIndex, sendSwapPosts>>

\* Its getSendFlowData settled, Browser.storage.local.set is called.
SendFlowCallRead(c) ==
    /\ sendFlowCalls[c].pc = "get"
    /\ sendFlowCalls' = [sendFlowCalls EXCEPT ![c].pc = "set", ![c].currentData = sendFlow]
    /\ UNCHANGED <<sendPair, sendBalance, sendInput, sendForm, sendRoute, sendProceeds,
                   refundableSwaps, sendFlow, sendKeyIndex, sendSwapPosts>>

\* Its Browser.storage.local.set took effect.
SendFlowCallStored(c) ==
    /\ sendFlowCalls[c].pc = "set"
    /\ sendFlow' = IF sendFlowCalls[c].fn = "setSelectedAsset"
                     THEN setSelectedAsset(sendFlowCalls[c].currentData, sendFlowCalls[c].arg)
                     ELSE setUnsignedPset(sendFlowCalls[c].currentData, sendFlowCalls[c].arg)
    /\ sendFlowCalls' = [sendFlowCalls EXCEPT ![c].pc = "done",
                                              ![c].currentData = NoSendFlow]
    /\ UNCHANGED <<sendPair, sendBalance, sendInput, sendForm, sendRoute, sendProceeds,
                   refundableSwaps, sendKeyIndex, sendSwapPosts>>

\* SendFlowStorageAPI.reset(), called by another screen:
\* Browser.storage.local.remove of the sendFlowData.
reset ==
    /\ sendFlow' = NoSendFlow
    /\ UNCHANGED <<sendPair, sendBalance, sendInput, sendForm, sendRoute, sendProceeds,
                   refundableSwaps, sendFlowCalls, sendKeyIndex, sendSwapPosts>>

\* getSendFlowData of a pending update settled: what the storage holds at
\* that moment is the currentData of the update, whose
\* Browser.storage.local.set is called with it.
SendFlowDataRead(i) ==
    /\ sendProceeds[i].pc \in {"setSwapInfo.get", "setReceiverAddressAmount.get"}
    /\ sendProceeds' = [sendProceeds EXCEPT
          ![i].currentData = sendFlow,
          ![i].pc = IF @ = "setSwapInfo.get" THEN "setSwapInfo.set"
                    ELSE "setReceiverAddressAmount.set"]
    /\ UNCHANGED <<sendPair, sendBalance, sendInput, sendForm, sendRoute, refundableSwaps,
                   sendFlow, sendFlowCalls, sendKeyIndex, sendSwapPosts>>

\* The set of setSwapInfo took effect; handleProceed goes on to call
\* setReceiverAddressAmount with the address and amount of the response,
\* which stands at its getSendFlowData.
SwapInfoStored(i) ==
    /\ sendProceeds[i].pc = "setSwapInfo.set"
    /\ sendFlow' = setSwapInfo(sendProceeds[i].currentData, sendProceeds[i].swapInfo)
    /\ sendProceeds' = [sendProceeds EXCEPT
          ![i].pc = "setReceiverAddressAmount.get", ![i].currentData = NoSendFlow]
    /\ UNCHANGED <<sendPair, sendBalance, sendInput, sendForm, sendRoute, refundableSwaps,
                   sendFlowCalls, sendKeyIndex, sendSwapPosts>>

\* The set of setReceiverAddressAmount took effect; its promise is not yet
\* resolved.
ReceiverAddressAmountStored(i) ==
    /\ sendProceeds[i].pc = "setReceiverAddressAmount.set"
    /\ sendFlow' = setReceiverAddressAmount(sendProceeds[i].currentData,
                      sendProceeds[i].receiverAddress, sendProceeds[i].amount)
    /\ sendProceeds' = [sendProceeds EXCEPT
          ![i].pc = "history.push", ![i].currentData = NoSendFlow]
    /\ UNCHANGED <<sendPair, sendBalance, sendInput, sendForm, sendRoute, refundableSwaps,
                   sendFlowCalls, sendKeyIndex, sendSwapPosts>>

\* handleProceed resumed after setReceiverAddressAmount:
\* history.push(SEND_CHOOSE_FEE_ROUTE).
ProceedPushed(i) ==
    /\ sendProceeds[i].pc = "history.push"
    /\ sendProceeds' = [sendProceeds EXCEPT ![i].pc = "pushed"]
    /\ sendRoute' = "chooseFee"
    /\ UNCHANGED <<sendPair, sendBalance, sendInput, sendForm, refundableSwaps, sendFlow,
                   sendFlowCalls,
                   sendKeyIndex, sendSwapPosts>>

\* The positions of a handleProceed call that is still to go on.
ProceedPending ==
    {"getLiquidAddress", "findSwapWithInvoice", "AccountFactory.create",
     "accountFactory.make", "getNextAddress", "submarineSwap", "addSwap", "setSwapInfo.get",
     "setSwapInfo.set", "setReceiverAddressAmount.get", "setReceiverAddressAmount.set",
     "history.push"}

\* handleBackBtn: history.goBack() leaves the screen.  The handleProceed
\* calls in flight go on.
handleBackBtn ==
    /\ sendRoute = "form"
    /\ sendRoute' = "none"
    /\ UNCHANGED <<sendPair, sendBalance, sendInput, sendForm, sendProceeds,
                   refundableSwaps, sendFlow, sendFlowCalls, sendKeyIndex, sendSwapPosts>>

\* The Send Lightning screen is opened again after it was left: a new
\* component, its state the initial one.  The calls of the earlier component
\* go on and no longer act on the form.
SendScreenReopened ==
    /\ sendRoute # "form"
    /\ sendRoute' = "form"
    /\ sendPair' = NoPair
    /\ sendInput' = ""
    /\ sendForm' = NoForm
    /\ sendProceeds' = [i \in DOMAIN sendProceeds |->
                          [sendProceeds[i] EXCEPT !.mounted = FALSE]]
    /\ UNCHANGED <<sendBalance, refundableSwaps, sendFlow, sendFlowCalls, sendKeyIndex,
                   sendSwapPosts>>

NoSendForm ==
    /\ sendPair = NoPair
    /\ sendBalance = 0
    /\ sendInput = ""
    /\ sendForm = NoForm
    /\ sendRoute = "none"
    /\ sendProceeds = <<>>
    /\ refundableSwaps = <<>>
    /\ sendFlow = NoSendFlow
    /\ sendFlowCalls = <<>>
    /\ sendKeyIndex = 0
    /\ sendSwapPosts = <<>>

----------------------------------------------------------------------------
\* The receive-lightning screen (LightningShowInvoice)

\* useState initial values, as the effect of the first render leaves them.
NoScreen == [submitError |-> "", invoice |-> "", isSubmitting |-> FALSE,
             lookingForPayment |-> FALSE]

\* useEffect of the first render: setIsSubmitting(true),
\* setIsLookingForPayment(true), and makeSwap up to its await of getAmount.
RcvMakeSwap ==
    /\ rcvPc = "idle"
    /\ rcvRoute' = "showInvoice"
    /\ rcvScreen' = [rcvScreen EXCEPT !.isSubmitting = TRUE, !.lookingForPayment = TRUE]
    /\ rcvPc' = "getAmount"
    /\ UNCHANGED <<rcvWs, rcvClaimTx, rcvEvents, rcvTimer, rcvLog, rcvResets>>

\* getAmount answered: the throw without an amount, else the await of
\* AccountFactory.create.
RcvAmount(hasAmount) ==
    /\ rcvPc = "getAmount"
    /\ rcvPc' = IF hasAmount THEN "AccountFactory.create" ELSE "No amount defined"
    /\ UNCHANGED <<rcvScreen, rcvWs, rcvClaimTx, rcvEvents, rcvTimer, rcvLog, rcvResets,
                   rcvRoute>>

\* AccountFactory.create, accountFactory.make and getNextAddress answered,
\* one await after the other; after the last, reverseSwap is called and
\* posts its create request.
RcvAccount ==
    /\ rcvPc \in {"AccountFactory.create", "accountFactory.make", "getNextAddress"}
    /\ rcvPc' = CASE rcvPc = "AccountFactory.create" -> "accountFactory.make"
                  [] rcvPc = "accountFactory.make" -> "getNextAddress"
                  [] rcvPc = "getNextAddress" -> "creating"
    /\ UNCHANGED <<rcvScreen, rcvWs, rcvClaimTx, rcvEvents, rcvTimer, rcvLog, rcvResets,
                   rcvRoute>>

\* The create request of reverseSwap rejected: makeSwap rejects.
RcvCreateFails ==
    /\ rcvPc = "creating"
    /\ rcvPc' = "rejected"
    /\ UNCHANGED <<rcvScreen, rcvWs, rcvClaimTx, rcvEvents, rcvTimer, rcvLog, rcvResets,
                   rcvRoute>>

\* invoiceHasExpired, on the screen state given.
invoiceHasExpired(screen) ==
    [screen EXCEPT !.submitError = "Invoice has expired", !.isSubmitting = FALSE,
                   !.lookingForPayment = FALSE]

\* The create request answered: onInvoice(createdResponse.invoice), that is
\* handleInvoice, then the websocket; reverseSwap returns and makeSwap goes on
\* to its await of getChainSource.
RcvCreated(expired) ==
    /\ rcvPc = "creating"
    /\ IF expired
         THEN /\ rcvScreen' = invoiceHasExpired(rcvScreen)
              /\ rcvLog' = Append(rcvLog, "invoiceHasExpired")
              /\ rcvResets' = rcvResets + 1
              /\ UNCHANGED rcvTimer
         ELSE /\ rcvTimer' = "set"
              /\ rcvScreen' = [rcvScreen EXCEPT !.isSubmitting = FALSE,
                                                !.invoice = "lnInvoice"]
              /\ UNCHANGED <<rcvLog, rcvResets>>
    /\ rcvWs' = "open"
    /\ rcvPc' = "getChainSource"
    /\ UNCHANGED <<rcvClaimTx, rcvEvents, rcvRoute>>

\* getChainSource answered: the throw without a chain source, else the await
\* of waitForAddressReceivesTx.
RcvChainSource(hasChainSource) ==
    /\ rcvPc = "getChainSource"
    /\ rcvPc' = IF hasChainSource THEN "waitForAddressReceivesTx"
                                  ELSE "Chain source not found"
    /\ UNCHANGED <<rcvScreen, rcvWs, rcvClaimTx, rcvEvents, rcvTimer, rcvLog, rcvResets,
                   rcvRoute>>

\* setTimeout(invoiceHasExpired, ...) fires.
RcvTimeout ==
    /\ rcvTimer = "set"
    /\ rcvTimer' = "fired"
    /\ rcvScreen' = invoiceHasExpired(rcvScreen)
    /\ rcvLog' = Append(rcvLog, "invoiceHasExpired")
    /\ rcvResets' = rcvResets + 1
    /\ UNCHANGED <<rcvPc, rcvWs, rcvClaimTx, rcvEvents, rcvRoute>>

\* handleCompletion: clearTimeout(invoiceExpirationTimeout), history.push.
handleCompletion ==
    /\ rcvTimer' = IF rcvTimer = "set" THEN "cleared" ELSE rcvTimer
    /\ rcvRoute' = "success"
    /\ rcvLog' = Append(rcvLog, "handleCompletion")

\* handleBackBtn, bound while isSubmitting or lookingForPayment:
\* history.goBack().  Nothing of makeSwap or reverseSwap is cancelled.
RcvBack ==
    /\ rcvRoute = "showInvoice"
    /\ rcvScreen.isSubmitting \/ rcvScreen.lookingForPayment
    /\ rcvRoute' = "back"
    /\ UNCHANGED <<rcvPc, rcvScreen, rcvWs, rcvClaimTx, rcvEvents, rcvTimer, rcvLog,
                   rcvResets>>

\* A transaction.mempool update handled by reverseSwap: claimTx is assigned
\* when the lockup holds the swap output.
RcvMempool(found) ==
    /\ rcvWs = "open"
    /\ rcvEvents < MaxEvents
    /\ rcvEvents' = rcvEvents + 1
    /\ rcvClaimTx' = (rcvClaimTx \/ found)
    /\ UNCHANGED <<rcvPc, rcvScreen, rcvWs, rcvTimer, rcvLog, rcvResets, rcvRoute>>

\* An invoice.settled update handled by reverseSwap:
\* onFinish(claimTx.toHex()), then webSocket.close(); claimTx.toHex() throws
\* when no claim was built.
RcvSettled ==
    /\ rcvWs = "open"
    /\ rcvEvents < MaxEvents
    /\ rcvEvents' = rcvEvents + 1
    /\ IF rcvClaimTx
         THEN handleCompletion /\ rcvWs' = "closed"
         ELSE UNCHANGED <<rcvWs, rcvTimer, rcvLog, rcvRoute>>
    /\ UNCHANGED <<rcvPc, rcvScreen, rcvClaimTx, rcvResets>>

\* waitForAddressReceivesTx settled: the address received a transaction;
\* makeSwap awaits fetchHistories.
RcvAddressReceivesTx ==
    /\ rcvPc = "waitForAddressReceivesTx"
    /\ rcvPc' = "fetchHistories"
    /\ UNCHANGED <<rcvScreen, rcvWs, rcvClaimTx, rcvEvents, rcvTimer, rcvLog, rcvResets,
                   rcvRoute>>

\* fetchHistories answered with the history of the one script asked for:
\* with a transaction not yet in a block in it makeSwap awaits
\* fetchTransactions, else it returns.
RcvHistories(unconfirmed) ==
    /\ rcvPc = "fetchHistories"
    /\ rcvPc' = IF unconfirmed THEN "fetchTransactions" ELSE "returned"
    /\ UNCHANGED <<rcvScreen, rcvWs, rcvClaimTx, rcvEvents, rcvTimer, rcvLog, rcvResets,
                   rcvRoute>>

\* fetchTransactions answered: handleCompletion on the transaction asked
\* for, when it is among those answered; makeSwap returns.
RcvTransactions(fullTx) ==
    /\ rcvPc = "fetchTransactions"
    /\ rcvPc' = "returned"
    /\ IF fullTx THEN handleCompletion ELSE UNCHANGED <<rcvTimer, rcvLog, rcvRoute>>
    /\ UNCHANGED <<rcvScreen, rcvWs, rcvClaimTx, rcvEvents, rcvResets>>

NoReceiveScreen ==
    /\ rcvPc = "idle"
    /\ rcvScreen = NoScreen
    /\ rcvWs = "none"
    /\ rcvClaimTx = FALSE
    /\ rcvEvents = 0
    /\ rcvTimer = "none"
    /\ rcvLog = <<>>
    /\ rcvResets = 0
    /\ rcvRoute = "none"

----------------------------------------------------------------------------
\* Specifications

ControllersInit ==
    /\ subPc = "idle" /\ subResp = NoResp /\ subPromise = "none"
    /\ subSwallowed = "" /\ subWs = "none" /\ subMsgs = 0
    /\ finPc = "idle" /\ finPromise = "none" /\ finRejects = <<>>
    /\ finWs = "none" /\ finLog = <<>> /\ finH = <<>> /\ finSessions = 0 /\ finMusig = <<>>
    /\ finPosts = <<>> /\ finErrors = <<>> /\ finMismatchAt = 0
    /\ revPc = "idle" /\ revInvoices = 0 /\ revWs = "none" /\ revLog = <<>>
    /\ claimTx = 0 /\ txs = <<>> /\ revH = <<>> /\ revSessions = 0 /\ revMusig = <<>> /\ revCreatePosts = <<>>
    /\ revClaimPosts = <<>> /\ revBroadcasts = <<>> /\ revOnFinish = <<>>
    /\ revErrors = <<>>

\* No screen of the wallet is open.
ScreensInit == NoSendForm /\ NoReceiveScreen

NoRefund ==
    /\ refParams = NoParams
    /\ refBuilds = <<>>
    /\ refOut = NoCall

NoLegacy ==
    /\ legScript = NoScript
    /\ legKey = ""
    /\ legInvoice = ""
    /\ legOut = NoCall
    /\ legExtracts = <<>>
    /\ mkPc = "idle"
    /\ mkAnswered = FALSE
    /\ mkOut = NoCall.result

NoLiquidAddress ==
    /\ laPc = "idle"
    /\ laHint = ""
    /\ laAnswer = NoAnswer
    /\ laOut = NoCall.result

Init ==
    /\ ControllersInit
    /\ ScreensInit
    /\ decoded = NoInvoice
    /\ invOut = NoCall
    /\ NoRefund
    /\ NoLegacy
    /\ NoLiquidAddress

otherThanSub == <<finVars, revVars, invVars, refVars, legVars, laVars, sendVars, rcvVars>>
otherThanFin == <<subVars, revVars, invVars, refVars, legVars, laVars, sendVars, rcvVars>>
otherThanRev == <<subVars, finVars, invVars, refVars, legVars, laVars, sendVars, rcvVars>>
otherThanInv == <<subVars, finVars, revVars, refVars, legVars, laVars, sendVars, rcvVars>>
otherThanRef == <<subVars, finVars, revVars, invVars, legVars, laVars, sendVars, rcvVars>>
otherThanLeg == <<subVars, finVars, revVars, invVars, refVars, laVars, sendVars, rcvVars>>
otherThanLa == <<subVars, finVars, revVars, invVars, refVars, legVars, sendVars, rcvVars>>
otherThanSend == <<subVars, finVars, revVars, invVars, refVars, legVars, laVars, rcvVars>>
otherThanRcv == <<subVars, finVars, revVars, invVars, refVars, legVars, laVars, sendVars>>

\* The send direction: submarineSwap, then finalizeSubmarineSwap on its result.
SubmarineStep ==
    \/ SubmarineSwapCall /\ UNCHANGED otherThanSub
    \/ SubmarinePostFails /\ UNCHANGED otherThanSub
    \/ \E res \in SubmarineResponses : SubmarinePostThen(res) /\ UNCHANGED otherThanSub
    \/ \E m \in SubMessages : SubmarineOnMessage(m) /\ UNCHANGED otherThanSub
    \/ \E hasInvoice, hasResponse \in BOOLEAN :
          FinalizeCall(hasInvoice, hasResponse) /\ UNCHANGED otherThanFin
    \/ \E m \in FinMessages : FinalizeOnMessage(m) /\ UNCHANGED otherThanFin
    \/ \E i \in DOMAIN finH, d \in ClaimTxDetails :
          FinalizeGetResponse(i, d) /\ UNCHANGED otherThanFin
    \/ \E i \in DOMAIN finH : FinalizeGetFails(i) /\ UNCHANGED otherThanFin
    \/ \E i \in DOMAIN finH, ok \in BOOLEAN :
          FinalizePostDone(i, ok) /\ UNCHANGED otherThanFin

SpecSubmarine == Init /\ [][SubmarineStep]_vars

\* The receive direction: reverseSwap.
ReverseStep ==
    \/ ReverseSwapCall /\ UNCHANGED otherThanRev
    \/ ReverseCreateFails /\ UNCHANGED otherThanRev
    \/ ReverseCreated /\ UNCHANGED otherThanRev
    \/ \E m \in RevMessages : ReverseOnMessage(m) /\ UNCHANGED otherThanRev
    \/ \E i \in DOMAIN revH, v \in BOOLEAN :
          ReverseClaimResponse(i, v) /\ UNCHANGED otherThanRev
    \/ \E i \in DOMAIN revH : ReverseClaimFails(i) /\ UNCHANGED otherThanRev
    \/ \E i \in DOMAIN revH, ok \in BOOLEAN :
          ReverseBroadcastDone(i, ok) /\ UNCHANGED otherThanRev

SpecReverse == Init /\ [][ReverseStep]_vars

\* getLiquidAddress, for every magic hint and answer of the service.
LiquidAddressInit ==
    /\ ControllersInit
    /\ ScreensInit
    /\ decoded = NoInvoice
    /\ invOut = NoCall
    /\ NoRefund
    /\ NoLegacy
    /\ laPc = "idle"
    /\ laHint \in HintKeys
    /\ laAnswer = NoAnswer
    /\ laOut = NoCall.result

LiquidAddressStep ==
    \/ GetLiquidAddressCall /\ UNCHANGED otherThanLa
    \/ GetLiquidAddressFails /\ UNCHANGED otherThanLa
    \/ \E bip21Data \in Bip21Answers :
          GetLiquidAddressAnswered(bip21Data) /\ UNCHANGED otherThanLa

SpecLiquidAddress == LiquidAddressInit /\ [][LiquidAddressStep]_vars

\* The receive direction when the service does its part: every request is
\* answered with success, invoice.settled comes once the transaction.mempool
\* handlers have finished, and a place in the bounded log is kept for it.
HandlersFinished ==
    /\ revH # <<>>
    /\ \A i \in DOMAIN revH : revH[i].pc = "done"

InvoiceSettled == Update("invoice.settled", <<>>)

DeliverBeforeSettled ==
    \E m \in RevMessages \ {InvoiceSettled} :
        Len(revLog) < MaxEvents - 1 /\ ReverseOnMessage(m) /\ UNCHANGED otherThanRev
DeliverSettled ==
    HandlersFinished /\ ReverseOnMessage(InvoiceSettled) /\ UNCHANGED otherThanRev
ClaimAnswered ==
    \E i \in DOMAIN revH : ReverseClaimResponse(i, TRUE) /\ UNCHANGED otherThanRev
BroadcastAnswered ==
    \E i \in DOMAIN revH : ReverseBroadcastDone(i, TRUE) /\ UNCHANGED otherThanRev

ReverseLiveStep ==
    \/ ReverseSwapCall /\ UNCHANGED otherThanRev
    \/ ReverseCreated /\ UNCHANGED otherThanRev
    \/ DeliverBeforeSettled
    \/ DeliverSettled
    \/ ClaimAnswered
    \/ BroadcastAnswered

SpecReverseLive ==
    /\ Init
    /\ [][ReverseLiveStep]_vars
    /\ WF_vars(DeliverSettled)
    /\ WF_vars(ClaimAnswered)
    /\ WF_vars(BroadcastAnswered)

\* One swap at a time, in either direction.
SwapStep ==
    \/ SubmarineStep /\ revPc = "idle"
    \/ ReverseStep /\ subPc = "idle" /\ finPc = "idle"

SpecSwap == Init /\ [][SwapStep]_vars

\* The invoice functions, each called on every invoice of DecodedInvoices.
InvoiceInit ==
    /\ ControllersInit
    /\ ScreensInit
    /\ decoded \in DecodedInvoices
    /\ invOut = NoCall
    /\ NoRefund
    /\ NoLegacy
    /\ NoLiquidAddress

InvoiceStep ==
    \/ CallDecodeInvoice /\ UNCHANGED otherThanInv
    \/ CallGetInvoiceExpireDate /\ UNCHANGED otherThanInv
    \/ CallGetInvoiceValue /\ UNCHANGED otherThanInv

SpecInvoice == InvoiceInit /\ [][InvoiceStep]_vars

\* The refund functions, each called on every parameter set of RefundParams.
RefundInit ==
    /\ ControllersInit
    /\ ScreensInit
    /\ decoded = NoInvoice
    /\ invOut = NoCall
    /\ refParams \in RefundParams
    /\ refBuilds = <<>>
    /\ refOut = NoCall
    /\ NoLegacy
    /\ NoLiquidAddress

RefundStep ==
    \/ /\ refOut = NoCall
       /\ \E fee \in {0, DummyFee, 132}, sigLen \in SigLens :
             CallGetRefundTransaction(fee, sigLen) /\ UNCHANGED otherThanRef
    \/ /\ refOut = NoCall
       /\ \E draftSigLen, finalSigLen \in SigLens :
             CallMakeRefundTransaction(draftSigLen, finalSigLen) /\ UNCHANGED otherThanRef

SpecRefund == RefundInit /\ [][RefundStep]_vars

\* The legacy script functions, on every script of RedeemScripts.
LegacyInit ==
    /\ ControllersInit
    /\ ScreensInit
    /\ decoded = NoInvoice
    /\ invOut = NoCall
    /\ NoRefund
    /\ legScript \in RedeemScripts
    /\ legKey \in {Hex(r) : r \in RefundKeyBytes}
    /\ legInvoice \in PaymentHashes
    /\ legOut = NoCall
    /\ legExtracts = <<>>
    /\ mkPc = "idle"
    /\ mkAnswered = FALSE
    /\ mkOut = NoCall.result
    /\ NoLiquidAddress

LegacyStep ==
    \/ CallIsValidSubmarineSwap /\ UNCHANGED otherThanLeg
    \/ \E network \in Networks : CallExtractInfo(network) /\ UNCHANGED otherThanLeg
    \/ MakeSubmarineSwapCall /\ UNCHANGED otherThanLeg
    \/ MakeSubmarineSwapAccount /\ UNCHANGED otherThanLeg
    \/ \E message \in WalletErrors :
          MakeSubmarineSwapAccountFails(message) /\ UNCHANGED otherThanLeg
    \/ MakeSubmarineSwapCreateFails /\ UNCHANGED otherThanLeg
    \/ \E address \in {"lockupAddress"}, expectedAmount \in {2600} :
          MakeSubmarineSwapCreated(address, expectedAmount) /\ UNCHANGED otherThanLeg

SpecLegacy == LegacyInit /\ [][LegacyStep]_vars

\* The send-lightning form, for every pair of the service, balance of the
\* wallet and text typed.
SendInit ==
    /\ ControllersInit
    /\ decoded = NoInvoice
    /\ invOut = NoCall
    /\ NoRefund
    /\ NoLegacy
    /\ NoLiquidAddress
    /\ sendPair = NoPair
    /\ sendBalance \in Balances
    /\ sendInput = ""
    /\ sendForm = NoForm
    /\ sendRoute = "form"
    /\ sendProceeds = <<>>
    /\ refundableSwaps = <<>>
    /\ sendFlow = NoSendFlow
    /\ sendFlowCalls = <<>>
    /\ sendKeyIndex = 0
    /\ sendSwapPosts = <<>>
    /\ NoReceiveScreen

\* One form up to the first await of handleProceed.
SendFormStep ==
    \/ \E pair \in BoltzPairs : FetchPair(pair) /\ UNCHANGED otherThanSend
    \/ \E text \in InvoiceTexts \cup {""} : handleChange(text) /\ UNCHANGED otherThanSend
    \/ handleProceed /\ UNCHANGED otherThanSend

SpecSendForm == SendInit /\ [][SendFormStep]_vars

\* The invoices typed in the runs that follow handleProceed to its end.
FlowTexts == {"lnPlain", "lnHinted"}

\* The pair and the balance of those runs: how far handleProceed goes does
\* not depend on them once the invoice is accepted.
FlowPairs == {pair \in BoltzPairs : pair.percentageSwapIn = 10}

SendFlowInit == SendInit /\ sendBalance = 3000000

\* The form with handleProceed to its end, left and opened again while
\* calls are in flight, and the send flow reset at any moment.
SendStep ==
    \/ \E pair \in FlowPairs : FetchPair(pair) /\ UNCHANGED otherThanSend
    \/ \E text \in FlowTexts : handleChange(text) /\ UNCHANGED otherThanSend
    \/ handleProceed /\ UNCHANGED otherThanSend
    \/ \E i \in DOMAIN sendProceeds, bip21Data \in SendBip21Answers :
          ProceedAddressAnswered(i, bip21Data) /\ UNCHANGED otherThanSend
    \/ \E i \in DOMAIN sendProceeds : ProceedFound(i) /\ UNCHANGED otherThanSend
    \/ \E i \in DOMAIN sendProceeds : ProceedAccount(i) /\ UNCHANGED otherThanSend
    \/ \E i \in DOMAIN sendProceeds : ProceedKeyDerived(i) /\ UNCHANGED otherThanSend
    \/ \E i \in {j \in DOMAIN sendProceeds : sendProceeds[j].pc = "submarineSwap"} :
          \E swap \in SendSwapResponses(sendProceeds[i].refundPublicKey) :
              ProceedSwapCreated(i, swap) /\ UNCHANGED otherThanSend
    \/ \E i \in DOMAIN sendProceeds : ProceedSwapSaved(i) /\ UNCHANGED otherThanSend
    \/ \E i \in DOMAIN sendProceeds, message \in StorageErrors :
          ProceedSwapNotSaved(i, message) /\ UNCHANGED otherThanSend
    \/ \E i \in DOMAIN sendProceeds : SendFlowDataRead(i) /\ UNCHANGED otherThanSend
    \/ \E i \in DOMAIN sendProceeds : SwapInfoStored(i) /\ UNCHANGED otherThanSend
    \/ \E i \in DOMAIN sendProceeds :
          ReceiverAddressAmountStored(i) /\ UNCHANGED otherThanSend
    \/ \E i \in DOMAIN sendProceeds : ProceedPushed(i) /\ UNCHANGED otherThanSend
    \/ handleBackBtn /\ UNCHANGED otherThanSend
    \/ SendScreenReopened /\ UNCHANGED otherThanSend
    \/ reset /\ UNCHANGED otherThanSend

SpecSend == SendFlowInit /\ [][SendStep]_vars

\* The sendFlowRepository under the updates of handleProceed and of the
\* other screens of the send flow, with one mount of the form.
SendFlowStep ==
    \/ \E pair \in FlowPairs : FetchPair(pair) /\ UNCHANGED otherThanSend
    \/ \E text \in FlowTexts : handleChange(text) /\ UNCHANGED otherThanSend
    \/ handleProceed /\ UNCHANGED otherThanSend
    \/ \E i \in DOMAIN sendProceeds, bip21Data \in SendBip21Answers :
          ProceedAddressAnswered(i, bip21Data) /\ UNCHANGED otherThanSend
    \/ \E i \in DOMAIN sendProceeds : ProceedFound(i) /\ UNCHANGED otherThanSend
    \/ \E i \in DOMAIN sendProceeds : ProceedAccount(i) /\ UNCHANGED otherThanSend
    \/ \E i \in DOMAIN sendProceeds : ProceedKeyDerived(i) /\ UNCHANGED otherThanSend
    \/ \E i \in {j \in DOMAIN sendProceeds : sendProceeds[j].pc = "submarineSwap"} :
          \E swap \in SendSwapResponses(sendProceeds[i].refundPublicKey) :
              ProceedSwapCreated(i, swap) /\ UNCHANGED otherThanSend
    \/ \E i \in DOMAIN sendProceeds : ProceedSwapSaved(i) /\ UNCHANGED otherThanSend
    \/ \E i \in DOMAIN sendProceeds, message \in StorageErrors :
          ProceedSwapNotSaved(i, message) /\ UNCHANGED otherThanSend
    \/ \E i \in DOMAIN sendProceeds : SendFlowDataRead(i) /\ UNCHANGED otherThanSend
    \/ \E i \in DOMAIN sendProceeds : SwapInfoStored(i) /\ UNCHANGED otherThanSend
    \/ \E i \in DOMAIN sendProceeds :
          ReceiverAddressAmountStored(i) /\ UNCHANGED otherThanSend
    \/ \E i \in DOMAIN sendProceeds : ProceedPushed(i) /\ UNCHANGED otherThanSend
    \/ \E update \in FlowUpdates : SendFlowCalled(update) /\ UNCHANGED otherThanSend
    \/ \E c \in DOMAIN sendFlowCalls : SendFlowCallRead(c) /\ UNCHANGED otherThanSend
    \/ \E c \in DOMAIN sendFlowCalls : SendFlowCallStored(c) /\ UNCHANGED otherThanSend
    \/ reset /\ UNCHANGED otherThanSend

SpecSendFlow == SendFlowInit /\ [][SendFlowStep]_vars

\* The receive-lightning screen from its first render, for every order of
\* the updates of the swap, the transaction on the address and the timeout.
ReceiveStep ==
    \/ RcvMakeSwap /\ UNCHANGED otherThanRcv
    \/ \E hasAmount \in BOOLEAN : RcvAmount(hasAmount) /\ UNCHANGED otherThanRcv
    \/ RcvAccount /\ UNCHANGED otherThanRcv
    \/ RcvCreateFails /\ UNCHANGED otherThanRcv
    \/ \E expired \in BOOLEAN : RcvCreated(expired) /\ UNCHANGED otherThanRcv
    \/ \E hasChainSource \in BOOLEAN : RcvChainSource(hasChainSource) /\ UNCHANGED otherThanRcv
    \/ RcvTimeout /\ UNCHANGED otherThanRcv
    \/ RcvBack /\ UNCHANGED otherThanRcv
    \/ \E found \in BOOLEAN : RcvMempool(found) /\ UNCHANGED otherThanRcv
    \/ RcvSettled /\ UNCHANGED otherThanRcv
    \/ RcvAddressReceivesTx /\ UNCHANGED otherThanRcv
    \/ \E unconfirmed \in BOOLEAN : RcvHistories(unconfirmed) /\ UNCHANGED otherThanRcv
    \/ \E fullTx \in BOOLEAN : RcvTransactions(fullTx) /\ UNCHANGED otherThanRcv

SpecReceive == Init /\ [][ReceiveStep]_vars

----------------------------------------------------------------------------
\* Properties of finalizeSubmarineSwap and submarineSwap (SpecSubmarine)

RejectedWith(reason) == \E r \in DOMAIN finRejects : finRejects[r] = reason

PostedBy(i) == \E k \in DOMAIN finPosts : finPosts[k].handler = i

\* C1: for every transaction.claim.pending whose GET was answered, the partial
\* signature is POSTed iff sha256(preimage) is the invoice's payment hash; on a
\* mismatch the promise of finalizeSubmarineSwap is rejected with 'Boltz
\* provided invalid preimage', no Musig session exists for the event and
\* nothing was POSTed for it.
C1_SignsIffPreimageMatches ==
    \A i \in DOMAIN finH :
        finH[i].preimage # "" =>
            /\ PostedBy(i) <=> (Sha256(finH[i].preimage) = InvoicePaymentHash)
            /\ Sha256(finH[i].preimage) # InvoicePaymentHash =>
                  /\ finPromise = "rejected"
                  /\ RejectedWith("Boltz provided invalid preimage")
                  /\ finH[i].sess = 0

\* The cross-checks the response of POST swap/submarine has to pass: the
\* address to fund is the one the swap tree and keys commit to, and the refund
\* leaf carries the refund key that was requested.
CrossChecked(response) ==
    /\ response.address = response.treeAddress
    /\ response.treeRefundKey = WalletRefundKey

\* C2: submarineSwap resolves with a response only if the response passed the
\* cross-checks of address, swap tree and public keys.
C2_ResolvedOnlyIfCrossChecked ==
    subPromise = "resolved" => CrossChecked(subResp)

InFlight(h) == {i \in DOMAIN h : h[i].pc \in {"get", "post", "claim", "broadcast"}}

\* C4: at most one cooperative signing session of a swap is in flight: never
\* two handlers of transaction.claim.pending (submarine) or of
\* transaction.mempool (reverse) suspended at an HTTP round-trip together.
C4_OneSessionInFlight ==
    /\ Cardinality(InFlight(finH)) <= 1
    /\ Cardinality(InFlight(revH)) <= 1

\* C5: once the controller is terminal (transaction.claimed, respectively
\* invoice.settled, was processed and the websocket closed) no suspended
\* handler creates a session, POSTs a partial signature, sets a witness or
\* broadcasts.
C5_LateResponsesDiscarded ==
    [][ /\ finWs = "closed" => finPosts' = finPosts /\ finSessions' = finSessions
        /\ revWs = "closed" => txs' = txs /\ revBroadcasts' = revBroadcasts ]_vars

ClaimedBeforeAnyClaimPending(k) ==
    /\ finLog[k] = Update("transaction.claimed", <<>>)
    /\ \A j \in 1..(k - 1) : finLog[j] # Update("transaction.claim.pending", <<>>)

\* C8: when transaction.claimed is delivered without an earlier
\* transaction.claim.pending the controller is terminal without an error: the
\* websocket is closed, the promise is resolved, and no GET, Musig session or
\* POST was made.
C8_ClaimedFirstIsCleanTerminal ==
    \A k \in DOMAIN finLog :
        ClaimedBeforeAnyClaimPending(k) =>
            /\ finWs = "closed"
            /\ finPromise = "resolved"
            /\ finErrors = <<>>
            /\ finH = <<>>
            /\ finSessions = 0
            /\ finPosts = <<>>

C8_Witness ==
    /\ Len(finLog) >= 2
    /\ ClaimedBeforeAnyClaimPending(Len(finLog))
    /\ finPromise = "resolved"

\* C10: every failure of submarineSwap rejects the promise it returned.
C10_FailureRejectsPromise ==
    subPc \in {"postFailed", "thenThrew"} => subPromise = "rejected"

ClaimPending == Update("transaction.claim.pending", <<>>)

\* The position in finLog of the message that started handler i: the i-th
\* transaction.claim.pending delivered.
EventOf(i) ==
    CHOOSE k \in DOMAIN finLog :
        /\ finLog[k] = ClaimPending
        /\ Cardinality({j \in 1..k : finLog[j] = ClaimPending}) = i

\* C11: once a preimage mismatch was detected the swap is aborted: no
\* notification delivered afterwards leads to a Musig session or a POST of a
\* partial signature, and no transaction.claimed delivered afterwards leaves
\* the promise resolved.
C11_AbortedAfterMismatch ==
    finMismatchAt > 0 =>
        /\ \A i \in DOMAIN finH :
              EventOf(i) > finMismatchAt => finH[i].sess = 0 /\ ~PostedBy(i)
        /\ \A k \in DOMAIN finLog :
              (k > finMismatchAt /\ finLog[k] = Update("transaction.claimed", <<>>))
                  => finPromise # "resolved"

\* The swap of the send direction is terminal once transaction.claimed was
\* processed by finalizeSubmarineSwap.
SubmarineTerminal ==
    \E k \in DOMAIN finLog : finLog[k] = Update("transaction.claimed", <<>>)

\* C12: the websockets of submarineSwap and of finalizeSubmarineSwap are never
\* open together, and once the swap is terminal none of them is open.
C12_OneSubscription ==
    /\ ~(subWs = "open" /\ finWs = "open")
    /\ SubmarineTerminal => (subWs # "open" /\ finWs # "open")

----------------------------------------------------------------------------
\* Properties of reverseSwap (SpecReverse)

Delivered(msg) == revLog' = Append(revLog, msg)

NoSwapOutput(lockupTx) == \A k \in DOMAIN lockupTx : lockupTx[k] # TweakedKey

\* C3: a transaction.mempool update whose lockup transaction has no output to
\* the tweaked swap key builds no claim transaction, POSTs no claim request,
\* broadcasts nothing, raises no error, leaves the websocket open and does not
\* call onFinish.
C3_ForeignLockupIsIgnored ==
    [][ \A l \in Lockups :
          (NoSwapOutput(l) /\ Delivered(Update("transaction.mempool", l))) =>
              /\ claimTx' = claimTx
              /\ txs' = txs
              /\ revH' = revH
              /\ revClaimPosts' = revClaimPosts
              /\ revBroadcasts' = revBroadcasts
              /\ revErrors' = revErrors
              /\ revOnFinish' = revOnFinish
              /\ revWs' = "open" ]_vars

C3_Witness ==
    /\ revLog # <<>>
    /\ revLog[Len(revLog)].status = "transaction.mempool"
    /\ NoSwapOutput(revLog[Len(revLog)].lockup)
    /\ revWs = "open"
    /\ claimTx = 0

\* C6: invoice.settled delivered while no claim transaction exists is a
\* no-op: no error is raised and onFinish is not called.
C6_EarlySettledIsNoOp ==
    [][ (claimTx = 0 /\ Delivered(Update("invoice.settled", <<>>))) =>
            /\ revErrors' = revErrors
            /\ revOnFinish' = revOnFinish ]_vars

\* C7: transaction.mempool delivered again builds no second claim
\* transaction, POSTs no second claim request and broadcasts no second time.
C7_MempoolIsIdempotent ==
    /\ Len(txs) <= 1
    /\ Len(revClaimPosts) <= 1
    /\ Len(revBroadcasts) <= 1

\* C9: every onFinish call carries the claim transaction with the aggregated
\* signature as witness of input 0, after its broadcast was answered.
C9_OnFinishOnlyAfterBroadcast ==
    \A k \in DOMAIN revOnFinish :
        /\ revOnFinish[k].witness # NoWitness
        /\ revOnFinish[k].broadcast

----------------------------------------------------------------------------
\* Properties of the invoice functions (SpecInvoice)

ExpireDateCalled == invOut.fn = "getInvoiceExpireDate"

\* C13: with a timestamp t, no absolute expiry and explicit expiry e (3600
\* when absent), getInvoiceExpireDate returns (t + e) * 1000.
C13_ExpiryInMilliseconds ==
    (/\ ExpireDateCalled
     /\ Truthy(decoded.timestamp)
     /\ decoded.timeExpireDate = Undefined) =>
        invOut.result =
            Returned((decoded.timestamp
                      + Coalesce(decoded.tags.expire_time, 3600)) * 1000)

\* C14: with an absolute expiry field and a timestamp (one the function does
\* not take for absent: not 0), getInvoiceExpireDate returns
\* timeExpireDate * 1000 whatever timestamp and expire_time are.
C14_AbsoluteExpiryWins ==
    (/\ ExpireDateCalled
     /\ decoded.timeExpireDate # Undefined
     /\ Truthy(decoded.timestamp)) =>
        invOut.result = Returned(decoded.timeExpireDate * 1000)

C14_Witness ==
    /\ ExpireDateCalled
    /\ decoded.timeExpireDate = 5300
    /\ decoded.timestamp = 1700000
    /\ decoded.tags.expire_time = 60
    /\ invOut.result.kind = "value"

\* C15: without a timestamp getInvoiceExpireDate throws 'Invoice without
\* timestamp', also when an absolute expiry field is there; it returns nothing.
C15_NoTimestampThrows ==
    (ExpireDateCalled /\ decoded.timestamp = Undefined) =>
        invOut.result = Thrown("Invoice without timestamp")

C15_Witness ==
    /\ ExpireDateCalled
    /\ decoded.timestamp = Undefined
    /\ decoded.timeExpireDate # Undefined
    /\ invOut.result.kind = "error"

\* C16: getInvoiceValue throws 'Invoice without amount' when the invoice has
\* neither amount field, and does not throw when it has satoshis or at least
\* 1000 millisatoshis.
C16_RejectsOnlyAmountless ==
    invOut.fn = "getInvoiceValue" =>
        /\ (decoded.satoshis = Undefined /\ decoded.millisatoshis = Undefined)
              => invOut.result = Thrown("Invoice without amount")
        /\ (decoded.satoshis # Undefined \/ decoded.millisatoshis >= 1000)
              => invOut.result.kind = "value"

\* C17: without satoshis and with millisatoshis m, decodeInvoice reports
\* satoshis = floor(m / 1000).
C17_SatoshisFromMillisatoshis ==
    (/\ invOut.fn = "decodeInvoice"
     /\ decoded.satoshis = Undefined
     /\ decoded.millisatoshis # Undefined) =>
        invOut.result.value.satoshis = decoded.millisatoshis \div 1000

----------------------------------------------------------------------------
\* Properties of the refund functions (SpecRefund)

RefundReturned(fn) == refOut.fn = fn /\ refOut.result.kind = "value"

\* C18: a transaction returned by getRefundTransaction has one input, the
\* locked utxo with sequence 21 and height locktime timeoutBlockHeight, and
\* two outputs: the destination, to destinationScript and blinded to
\* blindingPublicKey, and a script-less fee output in the network's asset;
\* destination amount + fee amount = the utxo's value.
C18_RefundShape ==
    RefundReturned("getRefundTransaction") =>
        LET tx == refOut.result.value
        IN  /\ Len(tx.ins) = 1
            /\ tx.ins[1].txid = refParams.utxo.txid
            /\ tx.ins[1].vout = refParams.utxo.vout
            /\ tx.ins[1].sequence = 21
            /\ tx.ins[1].heightLocktime = refParams.timeoutBlockHeight
            /\ Len(tx.outs) = 2
            /\ tx.outs[1].script = refParams.destinationScript
            /\ tx.outs[1].blindingPublicKey = refParams.blindingPublicKey
            /\ tx.outs[2].script = ""
            /\ tx.outs[2].blindingPublicKey = ""
            /\ tx.outs[2].asset = NetworkAsset
            /\ tx.outs[1].amount + tx.outs[2].amount = refParams.utxo.blindingData.value

C18_Witness ==
    /\ RefundReturned("getRefundTransaction")
    /\ refBuilds[1].fee = 132
    /\ refParams.utxo.blindingData.value = 100000
    /\ refParams.timeoutBlockHeight = 1500

\* C19: makeRefundTransaction builds twice, first with fee 300, then with
\* ceil((virtualSize(draft) + inputs of draft) * satsPerByte), satsPerByte 0.1
\* when absent; it returns the second build, whose fee output is that fee.
C19_TwoPassFee ==
    RefundReturned("makeRefundTransaction") =>
        LET draft == refBuilds[1].result.value
            rate == IF refParams.satsPerByte = Undefined THEN 10
                    ELSE refParams.satsPerByte
            fee == ((((draft.weight + 3) \div 4) + Len(draft.ins)) * rate + 99) \div 100
        IN  /\ Len(refBuilds) = 2
            /\ refBuilds[1].fee = 300
            /\ refBuilds[2].fee = fee
            /\ refOut.result = refBuilds[2].result
            /\ refOut.result.value.outs[2].amount = fee

\* C20: the fee recomputed from the transaction makeRefundTransaction returned
\* is the fee that transaction carries.
C20_FeeIsIdempotent ==
    RefundReturned("makeRefundTransaction") =>
        RefundFee(refOut.result.value, refParams) = refOut.result.value.outs[2].amount

\* C21: with no blinding data getRefundTransaction, and makeRefundTransaction
\* through it, throws 'utxo is not blinded'; with blinding data but no witness
\* utxo it throws 'utxo missing witnessUtxo'; no build is made and no
\* transaction is returned.
C21_UnspendableUtxoThrows ==
    (refOut # NoCall /\ (refParams.utxo.blindingData = NoBlindingData
                           \/ ~refParams.utxo.witnessUtxo)) =>
        /\ refOut.result.kind = "error"
        /\ refOut.result.value = Undefined
        /\ refOut.result.error =
              IF refParams.utxo.blindingData = NoBlindingData
                THEN "utxo is not blinded" ELSE "utxo missing witnessUtxo"
        /\ Len(refBuilds) = 1
        /\ refBuilds[1].result.kind = "error"

C21_Witness ==
    /\ refOut.fn = "makeRefundTransaction"
    /\ refParams.utxo.blindingData # NoBlindingData
    /\ ~refParams.utxo.witnessUtxo
    /\ refOut.result.error = "utxo missing witnessUtxo"

----------------------------------------------------------------------------
\* Properties of the legacy script functions (SpecLegacy)

\* The 12-token template, with refundPublicKey at index 9.
IsHtlcTemplate(tokens, refundPublicKey) ==
    /\ Len(tokens) = 12
    /\ tokens[1] = "OP_HASH160"
    /\ tokens[3] = "OP_EQUAL"
    /\ tokens[4] = "OP_IF"
    /\ tokens[6] = "OP_ELSE"
    /\ tokens[8] = "OP_NOP2"
    /\ tokens[9] = "OP_DROP"
    /\ tokens[10] = refundPublicKey
    /\ tokens[11] = "OP_ENDIF"
    /\ tokens[12] = "OP_CHECKSIG"

DecompiledTokens ==
    IF legScript.truncated THEN <<>>
    ELSE [i \in 1 .. Len(legScript.chunks) |->
            IF legScript.chunks[i].op # "" THEN legScript.chunks[i].op
            ELSE Hex(legScript.chunks[i].data)]

\* C22: isValidSubmarineSwap(redeemScript, refundPublicKey) is true exactly
\* when the decompiled script is the 12-token template with refundPublicKey
\* at index 9.
C22_ValidIffTemplate ==
    legOut.fn = "isValidSubmarineSwap" =>
        (legOut.result.value = TRUE <=> IsHtlcTemplate(DecompiledTokens, legKey))

C22_Witness ==
    /\ legOut.fn = "isValidSubmarineSwap"
    /\ Len(DecompiledTokens) = 13
    /\ legOut.result.value = FALSE

\* C23: a redeem script that isValidSubmarineSwap accepts has, as hash-lock
\* token, the hash160 behind the payment hash of the invoice being paid.
\* makeSubmarineSwap likewise returns a funding address only for such a script.
C23_HashLockIsInvoiceHash ==
    /\ (legOut.fn = "isValidSubmarineSwap" /\ legOut.result.value = TRUE) =>
          DecompiledTokens[2] = Hex(Ripemd160(legInvoice))
    /\ (mkPc = "done" /\ mkOut.kind = "value") =>
          DecompiledTokens[2] = Hex(Ripemd160(legInvoice))

RECURSIVE LittleEndian(_)
LittleEndian(bytes) ==
    IF bytes = <<>> THEN 0 ELSE HexDigits[Head(bytes)] + 256 * LittleEndian(Tail(bytes))

\* The number a chunk of a script stands for: OP_1 is 1, a push is the
\* little-endian integer of its bytes; another opcode is no number.
ScriptNumber(chunk) ==
    IF chunk.op = "OP_1" THEN 1
    ELSE IF chunk.op = "" THEN LittleEndian(chunk.data)
    ELSE Undefined

\* C24: on every redeem script that isValidSubmarineSwap accepts for a key,
\* extractInfoFromRefundableSwapParams returns that key (token 9) as
\* refundPublicKey and the integer of the CLTV token (token 6) as
\* timeoutBlockHeight; two calls with the same params give the same result.
C24_ExtractAgreesWithTemplate ==
    /\ \A i \in DOMAIN legExtracts :
          isValidSubmarineSwap(legScript, legKey) =>
              /\ legExtracts[i].result.kind = "value"
              /\ legExtracts[i].result.value.refundPublicKey = legKey
              /\ legExtracts[i].result.value.refundPublicKey = DecompiledTokens[10]
              /\ legExtracts[i].result.value.timeoutBlockHeight =
                    ScriptNumber(legScript.chunks[7])
    /\ \A i, j \in DOMAIN legExtracts :
          legExtracts[i].params = legExtracts[j].params =>
              legExtracts[i].result = legExtracts[j].result

----------------------------------------------------------------------------
\* Properties of cooperative signing (SpecSwap)

\* In a trace of calls, every b comes after some a.
Before(trace, a, b) ==
    \A j \in DOMAIN trace : trace[j] = b => \E i \in 1 .. j - 1 : trace[i] = a

\* Idle -> NonceGenerated -> NoncesAggregated -> SessionInitialized ->
\* PartiallySigned -> Aggregated, as calls on one Musig instance.
ProtocolOrder(trace) ==
    /\ trace[1] = "new"
    /\ \A j \in DOMAIN trace : trace[j] = "new" => j = 1
    /\ Before(trace, "new", "tweakMusig")
    /\ Before(trace, "tweakMusig", "aggregateNonces")
    /\ Before(trace, "aggregateNonces", "initializeSession")
    /\ Before(trace, "initializeSession", "signPartial")
    /\ Before(trace, "addPartial", "aggregatePartials")
    /\ Before(trace, "signPartial", "aggregatePartials")

\* C25: every Musig instance is fresh and is driven in the protocol order:
\* tweak, then nonce aggregation, then initialisation on the sighash, then the
\* local partial signature; in reverseSwap the aggregate comes after both
\* partial signatures, and every broadcast request carries a transaction whose
\* witness is that aggregate.
C25_SigningFollowsProtocolOrder ==
    /\ \A k \in DOMAIN finMusig : ProtocolOrder(finMusig[k])
    /\ \A k \in DOMAIN revMusig : ProtocolOrder(revMusig[k])
    /\ \A b \in DOMAIN revBroadcasts :
          /\ revBroadcasts[b].witness # NoWitness
          /\ revBroadcasts[b].witness.sess \in DOMAIN revMusig
          /\ revBroadcasts[b].witness.over = revBroadcasts[b].tx
          /\ LET trace == revMusig[revBroadcasts[b].witness.sess]
             IN  trace[Len(trace)] = "aggregatePartials"

C25_Witness ==
    /\ Len(revBroadcasts) = 2
    /\ revBroadcasts[1].witness.sess # revBroadcasts[2].witness.sess
    /\ \E k \in DOMAIN revMusig : Len(revMusig[k]) = 2

----------------------------------------------------------------------------
\* Properties of getLiquidAddress (SpecLiquidAddress)

\* The address part of the answer: between the first ":" and the next "?" or ":".
AnsweredAddress ==
    LET uri == laAnswer.bip21
        k == CHOOSE k \in DOMAIN uri : uri[k] = ":" /\ \A j \in 1 .. k - 1 : uri[j] # ":"
    IN  uri[k + 1]

HoldsAddress == \E k \in DOMAIN laAnswer.bip21 : laAnswer.bip21[k] = ":"

SignedByHint ==
    /\ laAnswer.signature.signer = laHint
    /\ laAnswer.signature.message = <<"sha256", AnsweredAddress>>

\* C26: getLiquidAddress returns the address of the answer when the answer's
\* signature is the hint key's over sha256(address), and never otherwise: then
\* it throws 'BOLTZ IS TRYING TO CHEAT' and no address is returned.
C26_AddressOnlyIfSigned ==
    /\ (laPc = "done" /\ laOut.kind = "value") =>
          /\ HoldsAddress
          /\ laOut.value = <<AnsweredAddress>>
          /\ SignedByHint
    /\ (laPc = "done" /\ HoldsAddress) =>
          IF SignedByHint
            THEN laOut = Returned(<<AnsweredAddress>>)
            ELSE laOut = Thrown("BOLTZ IS TRYING TO CHEAT")

C26_Witness ==
    /\ laPc = "done"
    /\ HoldsAddress
    /\ laAnswer.signature.signer = laHint
    /\ laAnswer.signature.message # <<"sha256", AnsweredAddress>>
    /\ laOut.error = "BOLTZ IS TRYING TO CHEAT"

----------------------------------------------------------------------------
\* C27: makeSubmarineSwap returns {address, expectedAmount} only after the
\* service answered with a redeem script that is the template with the refund
\* public key just derived at index 9; when the service answered with any
\* other script it throws 'invalid submarine swap', and without a validated
\* script no address is returned, however the call ends.
C27_ReturnsOnlyValidatedSwap ==
    /\ (mkPc = "done" /\ mkOut.kind = "value") =>
          /\ mkAnswered
          /\ IsHtlcTemplate(DecompiledTokens, legKey)
          /\ mkOut.value = [address |-> "lockupAddress", expectedAmount |-> 2600]
    /\ mkAnswered =>
          /\ mkPc = "done"
          /\ IF IsHtlcTemplate(DecompiledTokens, legKey)
                THEN mkOut.kind = "value"
                ELSE mkOut = Thrown("invalid submarine swap")
    /\ (mkPc = "done" /\ ~mkAnswered) => mkOut.kind = "error" /\ mkOut.value = Undefined

C27_Witness ==
    /\ mkPc = "done"
    /\ mkAnswered
    /\ Len(DecompiledTokens) = 12
    /\ DecompiledTokens[10] # legKey
    /\ mkOut = Thrown("invalid submarine swap")

----------------------------------------------------------------------------
\* Liveness of reverseSwap (SpecReverseLive)

SwapOutputSeen ==
    \E k \in DOMAIN revLog :
        /\ revLog[k].raw = "json" /\ revLog[k].event = "update"
        /\ revLog[k].status = "transaction.mempool"
        /\ detectSwap(TweakedKey, revLog[k].lockup) # 0

FinishedWithBroadcastClaim ==
    /\ revOnFinish # <<>>
    /\ revOnFinish[Len(revOnFinish)].broadcast
    /\ revOnFinish[Len(revOnFinish)].witness # NoWitness
    /\ revWs = "closed"

\* C28: once a transaction.mempool event whose lockup holds the swap output
\* has been delivered, reverseSwap eventually calls onFinish with the hex of a
\* claim transaction whose broadcast was answered, and closes the websocket.
C28_ReverseSwapCompletes == SwapOutputSeen ~> FinishedWithBroadcastClaim

C28_Witness ==
    /\ FinishedWithBroadcastClaim
    /\ Len(revH) = 2

----------------------------------------------------------------------------
\* C29: once finalizeSubmarineSwap has processed transaction.claimed, or
\* reverseSwap has processed invoice.settled, the websocket of that swap is
\* closed and that notification is the last one processed: none delivered
\* afterwards can trigger a request, a signing step or a callback.
C29_TerminalClosesSubscription ==
    /\ \A k \in DOMAIN finLog :
          finLog[k] = Update("transaction.claimed", <<>>) =>
              finWs = "closed" /\ k = Len(finLog)
    /\ \A k \in DOMAIN revLog :
          revLog[k] = Update("invoice.settled", <<>>) =>
              revWs = "closed" /\ k = Len(revLog)

\* The delivered transaction.mempool events whose lockup holds the swap output.
SwapOutputsSeen ==
    {k \in DOMAIN revLog :
        /\ revLog[k].raw = "json" /\ revLog[k].event = "update"
        /\ revLog[k].status = "transaction.mempool"
        /\ \E o \in DOMAIN revLog[k].lockup : revLog[k].lockup[o] = TweakedKey}

\* C30: the create request of reverseSwap holds the hash of the preimage and
\* not the preimage; the preimage is sent only in claim requests, one per
\* delivered transaction.mempool event whose lockup pays to the tweaked key,
\* so none before the first such event.
C30_PreimageOnlyAfterLockup ==
    /\ \A k \in DOMAIN revCreatePosts :
          /\ revCreatePosts[k].preimageHash = "sha256:preimageOwn"
          /\ RevPreimage \notin revCreatePosts[k].holds
    /\ Len(revClaimPosts) = Cardinality(SwapOutputsSeen)
    /\ \A k \in DOMAIN revClaimPosts :
          revClaimPosts[k].preimage => txs[revClaimPosts[k].tx].vout # 0

C30_Witness ==
    /\ Len(revClaimPosts) = 1
    /\ revClaimPosts[1].preimage
    /\ Len(revLog) = 3
    /\ SwapOutputsSeen = {3}

\* C31: the key pair of every cooperative signature is the one registered
\* with the service: the Musig session of a reverse swap's claim request is
\* keyed by the claimPublicKey of the create request, and the partial
\* signature of finalizeSubmarineSwap is made with the key whose public key
\* handleProceed sent as refundPublicKey.
C31_SigningKeyIsRegistered ==
    /\ \A k \in DOMAIN revClaimPosts :
          \A c \in DOMAIN revCreatePosts :
              revClaimPosts[k].key = revCreatePosts[c].claimPublicKey
    /\ \A k \in DOMAIN finPosts : finPosts[k].key = WalletRefundKey

----------------------------------------------------------------------------
\* Properties of the send-lightning form (SpecSend, SpecSendForm)

\* What extractInfoFromRefundableSwapParams gives for a saved swap.
ExtractedFrom(swap) ==
    extractInfoFromRefundableSwapParams(
        [blindingKey |-> swap.blindingKey, redeemScript |-> swap.redeemScript,
         network |-> swap.network])

\* C32: for every swap makeSwap saved, extractInfoFromRefundableSwapParams on
\* the saved redeemScript gives the refundPublicKey saved with it and the
\* timeout block height of the swap.
C32_SavedSwapIsRefundable ==
    \A k \in DOMAIN refundableSwaps :
        /\ ExtractedFrom(refundableSwaps[k]).kind = "value"
        /\ ExtractedFrom(refundableSwaps[k]).value.refundPublicKey
              = refundableSwaps[k].refundPublicKey
        /\ ExtractedFrom(refundableSwaps[k]).value.timeoutBlockHeight
              = SwapTimeoutBlockHeight

\* The text passes the validations of the form: it decodes, with an amount
\* and an expiry, is not expired, and its value is positive and within the
\* limits of the pair.
PassesValidations(text) ==
    /\ ~Bolt11Throws(text)
    /\ getInvoiceValue(bolt11decode(text)).kind = "value"
    /\ getInvoiceExpireDate(bolt11decode(text)).kind = "value"
    /\ getInvoiceExpireDate(bolt11decode(text)).value >= Now
    /\ LET sats == getInvoiceValue(bolt11decode(text)).value.units
       IN  sats > 0 /\ sats >= sendPair.minimal /\ sats <= sendPair.maximal

\* C33: Proceed is enabled only when the text in the field is an invoice that
\* passed the validations, and a click on Proceed submits the text that is
\* in the field.
C33_ProceedSubmitsCurrentInput ==
    [][ /\ (sendRoute' = "form" /\ ~isButtonDisabled(sendForm')) =>
              /\ sendInput' = sendForm'.invoice
              /\ PassesValidations(sendInput)'
        /\ Len(sendProceeds') > Len(sendProceeds) =>
              sendProceeds'[Len(sendProceeds')].invoice = sendInput ]_vars

\* C34: a handleProceed call takes the direct-address path exactly when the
\* invoice it submits carries the magic routing hint, with that hint.
C34_DirectPathOnlyForHintedInvoice ==
    \A i \in DOMAIN sendProceeds :
        sendProceeds[i].magicHint = getMagicHint(bolt11decode(sendProceeds[i].invoice))

\* The swap the repository answers with has an address and an amount.
Usable(swap) == swap.confidentialAddress # <<>> /\ swap.expectedAmount # 0

\* C35: when handleProceed gets from the repository a swap for its invoice
\* with address and amount, it calls setReceiverAddressAmount with the saved
\* address and amount, which that call stores as receiver address and amount
\* of the send flow.  A call derives a refund key and requests a swap only
\* while the repository answers with no such swap for its invoice, and a
\* swap is saved only for a request made.
C35_SavedSwapIsReused ==
    [][ /\ \A i \in DOMAIN sendProceeds :
              (sendProceeds[i].pc = "findSwapWithInvoice"
                 /\ sendProceeds'[i].pc # "findSwapWithInvoice") =>
              LET swapOnCache ==
                      findSwapWithInvoice(refundableSwaps, sendProceeds[i].invoice)
              IN  Usable(swapOnCache) =>
                      /\ sendProceeds'[i].pc = "setReceiverAddressAmount.get"
                      /\ sendProceeds'[i].receiverAddress
                            = swapOnCache.confidentialAddress
                      /\ sendProceeds'[i].amount = swapOnCache.expectedAmount
        /\ \A i \in DOMAIN sendProceeds :
              (sendProceeds[i].pc = "setReceiverAddressAmount.set"
                 /\ sendProceeds'[i].pc # "setReceiverAddressAmount.set") =>
              /\ sendFlow'.receiverAddress = sendProceeds[i].receiverAddress
              /\ sendFlow'.amount = sendProceeds[i].amount
        /\ \A i \in DOMAIN sendProceeds :
              (sendProceeds'[i].pc = "submarineSwap" /\ sendProceeds[i].pc # "submarineSwap") =>
              /\ ~Usable(findSwapWithInvoice(refundableSwaps, sendProceeds[i].invoice))
              /\ sendKeyIndex' = sendKeyIndex + 1
              /\ sendSwapPosts' = Append(sendSwapPosts,
                    [invoice |-> sendProceeds[i].invoice,
                     refundPublicKey |-> sendProceeds'[i].refundPublicKey])
        /\ (\A i \in DOMAIN sendProceeds : sendProceeds[i].pc # "getNextAddress") =>
              sendSwapPosts' = sendSwapPosts /\ sendKeyIndex' = sendKeyIndex
        /\ refundableSwaps' # refundableSwaps =>
              /\ Len(refundableSwaps') = Len(refundableSwaps) + 1
              /\ \E k \in DOMAIN sendSwapPosts :
                    /\ sendSwapPosts[k].invoice
                          = refundableSwaps'[Len(refundableSwaps')].invoice
                    /\ sendSwapPosts[k].refundPublicKey
                          = refundableSwaps'[Len(refundableSwaps')].refundPublicKey
      ]_vars

\* f is the least integer not below amount * percentage / 100 + minerFees.
IsCeilOfFee(f, pair, amount) ==
    /\ f * 10000 >= amount * pair.percentageSwapIn + pair.minerFees * 10000
    /\ (f - 1) * 10000 < amount * pair.percentageSwapIn + pair.minerFees * 10000

\* C36: handleChange accepts a text (sets it as the invoice, without error)
\* only if it decodes, is not expired, its value is positive and within the
\* limits of the pair, and value plus swap fee is at most the balance, the
\* swap fee being 0 with a magic hint and else the ceiling of
\* value * percentageSwapIn / 100 + minerFees.
C36_AcceptsOnlyValidInvoice ==
    [][ \A text \in InvoiceTexts :
          (sendInput # text /\ sendInput' = text
             /\ sendForm'.invoice = text /\ sendForm'.error = "") =>
          /\ PassesValidations(text)
          /\ LET sats == getInvoiceValue(bolt11decode(text)).value.units
             IN  /\ sats + sendForm'.swapFees <= sendBalance
                 /\ IF getMagicHint(bolt11decode(text)) # NoHint
                      THEN sendForm'.swapFees = 0
                      ELSE IsCeilOfFee(sendForm'.swapFees, sendPair, sats) ]_vars

\* An invoice without hint accepted with value plus fee equal to the balance.
C36_Witness ==
    /\ sendInput = "lnPlain"
    /\ sendForm.invoice = "lnPlain" /\ sendForm.error = ""
    /\ sendForm.swapFees = 22
    /\ sendBalance = 2522

----------------------------------------------------------------------------
\* Properties of the receive-lightning screen (SpecReceive)

\* C37: handleCompletion runs at most once, whatever the order of the
\* invoice.settled update and the transaction seen on the address, and
\* invoiceHasExpired never runs after it.
C37_CompletionReportedOnce ==
    /\ Cardinality({k \in DOMAIN rcvLog : rcvLog[k] = "handleCompletion"}) <= 1
    /\ \A j, k \in DOMAIN rcvLog :
          (rcvLog[j] = "handleCompletion" /\ rcvLog[k] = "invoiceHasExpired") => k < j

====
